---- MODULE Spec2Model ----
(***************************************************************************)
(* Message tracking registry and retention engine of the TradersMind chart *)
(* bot: MessageTrackingService, RetentionService, the thread directory of  *)
(* ThreadService and the interaction flows that register artifacts.        *)
(*                                                                         *)
(* Time is counted in hours.  A cleanup run is suspended only at its       *)
(* platform calls (awaits on the Discord client); the synchronous code     *)
(* between two platform calls is one step.  The clock is observed at a     *)
(* granularity of one retention period and a platform call returns within  *)
(* one clock step, so the clock advances only while no run is suspended.   *)
(***************************************************************************)
EXTENDS Integers, Sequences, FiniteSets, TLC

\* ------------------------------------------------------------------ bounds
MaxMsg == 2
MaxThreads == 1
MaxSteps == 3
MaxRuns == 2
MaxThreadRuns == 1
MaxQueryMsg == 3
MaxCacheKeys == 2
MaxCalls == 2
MaxDays == 2
MaxPayload == 2
MaxDirThreads == 2
MaxEnvLen == 5
MaxTicks == 2

\* --------------------------------------------------- program configuration
RetentionHours == 4
SafetyBufferHours == RetentionHours + 4
OrphanEvery == 6
ExpiryHours == 1
DefaultRetentionHours == 26
DefaultSafetyBufferHours == 30
DedupWindowSec == 10

Users == {"u1"}
Tickers == {"AAPL"}
NoUser == "none"
NoCall == [op |-> "none", id |-> 0, ret |-> 0]
NoThread == <<"none", 0>>
MainChannel == <<"channel", 0>>
ThreadId(n) == <<"thread", n>>
AllThreads == {ThreadId(n) : n \in 1..MaxThreads}
MsgIds == 1..MaxMsg
RunIds == 1..MaxRuns
ThreadRunIds == 1..MaxThreadRuns
CallIds == 1..MaxCalls
Payloads == 1..MaxPayload
NoPayload == 0
IdleCall == [op |-> "none", pc |-> "idle", arg |-> "none", key |-> <<>>,
             existingThread |-> NoThread, thread |-> NoThread,
             isNewThread |-> FALSE]

VARIABLES
    now,                 \* Date.now(), in hours
    nextMsg,             \* next message id the platform hands out
    nextThread,          \* next thread id the platform hands out
    trackedMessages,     \* MessageTrackingService.trackedMessages
    messageToCache,      \* MessageTrackingService.messageToCache
    registeredEphemeral, \* ids whose trackMessage call carried isEphemeral = true
    platformMessages,    \* bot messages present on the platform: id -> channel
    platformThreads,     \* threads present on the platform
    archivedThreads,     \* threads the platform has archived
    userContent,         \* threads holding a user message younger than 2 hours
    stockCache,          \* StockService.stockCache
    chartCache,          \* ChartService.chartCache
    userThreads,         \* ThreadService.userThreads: user -> thread id
    threadService,       \* RetentionService.threadService is set
    inter,               \* per user: thread held by a thread-flow interaction
    isRunning,           \* RetentionService.isRunning
    cleanupInterval,     \* RetentionService.cleanupInterval holds a timer
    timers,              \* interval timers armed by setInterval and not cleared
    cleanupCycleCount,   \* RetentionService.cleanupCycleCount, modulo OrphanEvery
    lastCall,            \* last direct call of a registry method and what it returned
    cacheFaults,         \* <<cache, key>> pairs whose clearFromCache throws
    calls,               \* calls of the cache and thread services suspended at an await
    expiryTimers,        \* auto-cleanup timers armed by getOrCreateUserThread
    processEnv,          \* process.env.MESSAGE_RETENTION_HOURS
    processedInteractions, \* InteractionHandler.processedInteractions
    userTickerRequests,  \* InteractionHandler.userTickerRequests
    nowSec,              \* Date.now() as handleInteraction reads it, in seconds
    runs                 \* executions of runCleanup

vars == <<now, nextMsg, nextThread, trackedMessages, messageToCache,
          registeredEphemeral, platformMessages, platformThreads,
          archivedThreads, userContent, stockCache, chartCache, userThreads, threadService,
          inter, isRunning, cleanupInterval, timers, cleanupCycleCount,
          lastCall, cacheFaults, calls, expiryTimers, processEnv,
          processedInteractions, userTickerRequests, nowSec, runs>>

\* the process environment and the de-duplication state of the handler
hostVars == <<processEnv, processedInteractions, userTickerRequests, nowSec>>

\* ------------------------------------------------------------ JS Map helpers
MapSet(f, k, v) == [x \in (DOMAIN f) \cup {k} |-> IF x = k THEN v ELSE f[x]]
MapDelete(f, k) == [x \in (DOMAIN f) \ {k} |-> f[x]]
EmptyMap == [x \in {} |-> 0]

\* an environment variable that is not set reads as undefined; Date.now() is
\* never zero
Unset == <<"undefined">>
InitHost ==
    /\ processEnv = Unset
    /\ processedInteractions = {}
    /\ userTickerRequests = EmptyMap
    /\ nowSec = 5

\* the ids of a set in increasing order (Map iteration order: ids are handed
\* out in increasing order and inserted once)
RECURSIVE SortedSeq(_)
SortedSeq(S) ==
    IF S = {} THEN <<>>
    ELSE LET m == CHOOSE x \in S : \A y \in S : x <= y
         IN <<m>> \o SortedSeq(S \ {m})

\* thread ids in the order the platform lists them
RECURSIVE SortedSeqBy(_)
SortedSeqBy(T) ==
    IF T = {} THEN <<>>
    ELSE LET t == CHOOSE x \in T : \A y \in T : x[2] <= y[2]
         IN <<t>> \o SortedSeqBy(T \ {t})

\* ------------------------------------------------------------- cache layer
today == now \div 24
getChartCacheKey(ticker) == <<"chart", ticker, today>>
getCacheKey(ticker) == <<"quote", ticker, today>>
clearFromCache(cache, cacheKey) == MapDelete(cache, cacheKey)

\* ------------------------------------------------------- artifact registry
trackMessage(messageId, channelId, userId, ticker, cacheKeys, threadId) ==
    MapSet(trackedMessages, messageId,
           [messageId |-> messageId, channelId |-> channelId, userId |-> userId,
            ticker |-> ticker, tickers |-> <<>>, threadId |-> threadId,
            createdAt |-> now, cacheKeys |-> cacheKeys, type |-> "chart_response",
            isEphemeral |-> FALSE])

trackMessageCache_deferred(messageId, cacheKeys) == messageToCache

trackMessageCache(messageId, cacheKeys) ==
    IF cacheKeys = <<>> THEN messageToCache
    ELSE MapSet(messageToCache, messageId,
                (IF messageId \in DOMAIN messageToCache
                 THEN messageToCache[messageId] ELSE <<>>) \o cacheKeys)

trackButtonMessage(messageId, channelId, tickers) ==
    MapSet(trackedMessages, messageId,
           [messageId |-> messageId, channelId |-> channelId, userId |-> NoUser,
            ticker |-> "none", tickers |-> tickers, threadId |-> NoThread,
            createdAt |-> now,
            cacheKeys |-> <<>>, type |-> "button_interaction",
            isEphemeral |-> FALSE])

trackThreadSystemMessage(messageId, channelId, threadId, userId) ==
    MapSet(trackedMessages, messageId,
           [messageId |-> messageId, channelId |-> channelId, userId |-> userId,
            ticker |-> "none", tickers |-> <<>>, threadId |-> threadId,
            createdAt |-> now,
            cacheKeys |-> <<>>, type |-> "thread_system_message",
            isEphemeral |-> FALSE])

getExpiredMessages_inclusive(tm, t) ==
    LET cutoffTime == t - RetentionHours
    IN SortedSeq({m \in DOMAIN tm : tm[m].createdAt <= cutoffTime})

getExpiredMessages(tm, t) ==
    LET cutoffTime == t - RetentionHours
    IN SortedSeq({m \in DOMAIN tm : tm[m].createdAt < cutoffTime})

untrackMessage_keepsCacheKeys(S, messageId) ==
    IF messageId \in DOMAIN S.tm
    THEN [S EXCEPT !.tm = MapDelete(S.tm, messageId)]
    ELSE S

untrackMessage(S, messageId) ==
    IF messageId \in DOMAIN S.tm
    THEN [S EXCEPT !.tm = MapDelete(S.tm, messageId),
                   !.mc = MapDelete(S.mc, messageId)]
    ELSE S

RECURSIVE untrackAll(_, _)
untrackAll(S, ids) ==
    IF ids = <<>> THEN S ELSE untrackAll(untrackMessage(S, Head(ids)), Tail(ids))

cleanupTrackingData_skipped(S) == S

cleanupTrackingData_inclusive(S) ==
    LET cutoffTime == S.now - SafetyBufferHours
    IN untrackAll(S, SortedSeq({m \in DOMAIN S.tm : S.tm[m].createdAt <= cutoffTime}))

cleanupTrackingData_shortBuffer(S) ==
    LET cutoffTime == S.now - (RetentionHours - 4)
    IN untrackAll(S, SortedSeq({m \in DOMAIN S.tm : S.tm[m].createdAt < cutoffTime}))

cleanupTrackingData(S) ==
    LET cutoffTime == S.now - SafetyBufferHours
    IN untrackAll(S, SortedSeq({m \in DOMAIN S.tm : S.tm[m].createdAt < cutoffTime}))

\* --------------------------------------------------------- thread directory
removeUserThread(ut, userId) == MapDelete(ut, userId)

\* --------------------------------------------------------- retention engine
IdleRun == [pc |-> "idle", expired |-> <<>>, i |-> 0, log |-> <<>>,
            threadToDelete |-> NoThread, snap |-> {},
            channels |-> <<>>, threads |-> <<>>, tracked |-> {}]

\* what a run has done for one expired artifact: how its cleanup ended, the
\* error the message fetch/delete raised, the keys passed to each cache's
\* clearFromCache, whether cleanupThreadIfNeeded was called, the last error a
\* platform call of the thread release raised, what the channel fetch returned
PendingEntry == [result |-> "pending", msgErr |-> "none", errOp |-> "none",
                 stock |-> <<>>, chart |-> <<>>, threadCheck |-> FALSE,
                 threadErr |-> "none", channel |-> "none"]

\* the engine's view of the state while one run executes synchronous code
View(r) == [now |-> now, tm |-> trackedMessages, mc |-> messageToCache,
            sc |-> stockCache, cc |-> chartCache, ut |-> userThreads,
            ts |-> threadService, cf |-> cacheFaults,
            cycle |-> cleanupCycleCount, run |-> runs[r]]

Cur(run) == run.expired[run.i]

Done(S) == [S EXCEPT !.run.pc = "done", !.run.threadToDelete = NoThread,
                     !.run.snap = {}, !.run.channels = <<>>,
                     !.run.threads = <<>>, !.run.tracked = {}]

\* channel ids of the tracked messages, in Map order, without duplicates
RECURSIVE Dedup(_, _)
Dedup(s, seen) ==
    IF s = <<>> THEN <<>>
    ELSE IF Head(s) \in seen THEN Dedup(Tail(s), seen)
         ELSE <<Head(s)>> \o Dedup(Tail(s), seen \cup {Head(s)})

channelIds(tm) ==
    LET ids == SortedSeq(DOMAIN tm)
    IN Dedup([j \in 1..Len(ids) |-> tm[ids[j]].channelId], {})

OrphanStart(S) ==
    LET cs == channelIds(S.tm)
    IN IF cs = <<>> \/ ~S.ts THEN Done(S)
       ELSE [S EXCEPT !.run.pc = "orphanFetchChannel", !.run.channels = cs]

AfterLoop(S) ==
    LET S1 == cleanupTrackingData(S)
    IN IF S1.cycle % OrphanEvery = 0 THEN OrphanStart(S1) ELSE Done(S1)

RECURSIVE Advance(_)

ThreadDone_keepsEntry(S) ==
    Advance([S EXCEPT !.run.log[S.run.i].result = "ok",
                      !.run.i = S.run.i + 1,
                      !.run.threadToDelete = NoThread,
                      !.run.snap = {}])

\* deleteMessageAndCleanup returned normally: untrack was its last statement
ThreadDone(S) ==
    LET S1 == untrackMessage(S, Cur(S.run).messageId)
    IN Advance([S1 EXCEPT !.run.log[S.run.i].result = "ok",
                          !.run.i = S.run.i + 1,
                          !.run.threadToDelete = NoThread,
                          !.run.snap = {}])

Fail_stopsTick(S) ==
    AfterLoop([S EXCEPT !.run.log[S.run.i].result = "error",
                        !.run.i = S.run.i + 1])

Fail_untracks(S) ==
    Advance([untrackMessage(S, Cur(S.run).messageId) EXCEPT
                !.run.log[S.run.i].result = "error",
                !.run.i = S.run.i + 1])

Fail_escapes(S) == [S EXCEPT !.run.pc = "rejected"]

\* deleteMessageAndCleanup threw: runCleanup's catch counts an error
Fail(S) ==
    Advance([S EXCEPT !.run.log[S.run.i].result = "error",
                      !.run.i = S.run.i + 1])

\* the per-key try of cleanupCacheData: the quote cache is asked first, and
\* when its clearFromCache throws the chart cache is not asked for that key
Delivered(S, cache, key) == <<cache, key>> \notin S.cf
Removed(S, cache, cacheKeys) ==
    {cacheKeys[j] : j \in {x \in 1..Len(cacheKeys) :
                              Delivered(S, cache, cacheKeys[x])}}

cleanupCacheData_stockOnly(S) ==
    LET cacheKeys == Cur(S.run).cacheKeys
        stockGone == Removed(S, "stock", cacheKeys)
    IN IF cacheKeys = <<>> THEN S
       ELSE [S EXCEPT !.sc = [k \in (DOMAIN S.sc) \ stockGone |-> S.sc[k]],
                      !.run.log[S.run.i].stock = cacheKeys]

cleanupCacheData_stopsAtFailure(S) ==
    LET cacheKeys == Cur(S.run).cacheKeys
        faulty == {x \in 1..Len(cacheKeys) :
                      \/ ~Delivered(S, "stock", cacheKeys[x])
                      \/ ~Delivered(S, "chart", cacheKeys[x])}
        last == IF faulty = {} THEN Len(cacheKeys)
                ELSE CHOOSE x \in faulty : \A y \in faulty : x <= y
        stockKeys == SubSeq(cacheKeys, 1, last)
        chartKeys == SelectSeq(stockKeys, LAMBDA k : Delivered(S, "stock", k))
        stockGone == Removed(S, "stock", stockKeys)
        chartGone == Removed(S, "chart", chartKeys)
    IN IF cacheKeys = <<>> THEN S
       ELSE [S EXCEPT !.sc = [k \in (DOMAIN S.sc) \ stockGone |-> S.sc[k]],
                      !.cc = [k \in (DOMAIN S.cc) \ chartGone |-> S.cc[k]],
                      !.run.log[S.run.i].stock = stockKeys,
                      !.run.log[S.run.i].chart = chartKeys]

cleanupCacheData(S) ==
    LET cacheKeys == Cur(S.run).cacheKeys
        chartKeys == SelectSeq(cacheKeys, LAMBDA k : Delivered(S, "stock", k))
        stockGone == Removed(S, "stock", cacheKeys)
        chartGone == Removed(S, "chart", chartKeys)
    IN IF cacheKeys = <<>> THEN S
       ELSE [S EXCEPT !.sc = [k \in (DOMAIN S.sc) \ stockGone |-> S.sc[k]],
                      !.cc = [k \in (DOMAIN S.cc) \ chartGone |-> S.cc[k]],
                      !.run.log[S.run.i].stock = cacheKeys,
                      !.run.log[S.run.i].chart = chartKeys]

cleanupThreadIfNeeded_countsTwo(S) ==
    LET md == Cur(S.run)
        S0 == [S EXCEPT !.run.log[S.run.i].threadCheck = TRUE]
        userMessages == {m \in DOMAIN S.tm : S.tm[m].userId = md.userId}
    IN IF ~S.ts \/ md.userId = NoUser THEN ThreadDone(S0)
       ELSE IF Cardinality(userMessages) <= 2
            THEN LET S1 == [S0 EXCEPT !.ut = removeUserThread(S.ut, md.userId),
                                      !.run.snap = userMessages,
                                      !.run.threadToDelete = NoThread]
                 IN IF md.threadId # NoThread
                    THEN [S1 EXCEPT !.run.pc = "fetchThread"]
                    ELSE [S1 EXCEPT !.run.pc = "searchThreads"]
            ELSE ThreadDone(S0)

\* cleanupThreadIfNeeded up to its first platform call
cleanupThreadIfNeeded(S) ==
    LET md == Cur(S.run)
        S0 == [S EXCEPT !.run.log[S.run.i].threadCheck = TRUE]
        userMessages == {m \in DOMAIN S.tm : S.tm[m].userId = md.userId}
    IN IF ~S.ts \/ md.userId = NoUser THEN ThreadDone(S0)
       ELSE IF Cardinality(userMessages) <= 1
            THEN LET S1 == [S0 EXCEPT !.ut = removeUserThread(S.ut, md.userId),
                                      !.run.snap = userMessages,
                                      !.run.threadToDelete = NoThread]
                 IN IF md.threadId # NoThread
                    THEN [S1 EXCEPT !.run.pc = "fetchThread"]
                    ELSE [S1 EXCEPT !.run.pc = "searchThreads"]
            ELSE ThreadDone(S0)

AfterMessage_noThreadCheck(S) == ThreadDone(cleanupCacheData(S))

\* the statements after the message was deleted (or found gone, or forbidden)
AfterMessage(S) == cleanupThreadIfNeeded(cleanupCacheData(S))

Advance(S) ==
    IF S.run.i > Len(S.run.expired) THEN AfterLoop(S)
    ELSE IF Cur(S.run).isEphemeral THEN AfterMessage(S)
         ELSE [S EXCEPT !.run.pc = "fetchChannel"]

\* runCleanup up to its first platform call
runCleanup(S) ==
    LET cycle == (S.cycle + 1) % OrphanEvery
        ids == getExpiredMessages(S.tm, S.now)
        expiredMessages == [j \in 1..Len(ids) |-> S.tm[ids[j]]]
        S1 == [S EXCEPT !.cycle = cycle]
    IN IF Len(expiredMessages) = 0
       THEN IF cycle % OrphanEvery = 0 THEN OrphanStart(S1) ELSE Done(S1)
       ELSE Advance([S1 EXCEPT !.run = [IdleRun EXCEPT
                        !.pc = "loop", !.expired = expiredMessages, !.i = 1,
                        !.log = [j \in 1..Len(ids) |-> PendingEntry]]])

\* write the engine's view back
Commit(r, S) ==
    /\ trackedMessages' = S.tm
    /\ messageToCache' = S.mc
    /\ stockCache' = S.sc
    /\ chartCache' = S.cc
    /\ userThreads' = S.ut
    /\ cleanupCycleCount' = S.cycle
    /\ runs' = [runs EXCEPT ![r] = S.run]

FreeRuns(R) == {r \in R : runs[r].pc = "idle"}
FreeRun(R) == CHOOSE r \in FreeRuns(R) : \A q \in FreeRuns(R) : r <= q
InFlight(r) == runs[r].pc \notin {"idle", "done"}
\* a finished run is settled before anything else happens
NoneDone == \A r \in RunIds : runs[r].pc # "done"

platformVars == <<platformMessages, platformThreads, archivedThreads, userContent>>
envVars == <<now, nextMsg, nextThread, registeredEphemeral, threadService, inter,
            lastCall, cacheFaults, calls, expiryTimers, hostVars>>

start_unguarded(R) ==
    /\ NoneDone
    /\ FreeRuns(R) # {}
    /\ Commit(FreeRun(R), runCleanup(View(FreeRun(R))))
    /\ timers' = timers + 1
    /\ cleanupInterval' = TRUE
    /\ isRunning' = TRUE
    /\ UNCHANGED <<platformVars, envVars>>

start(R) ==
    /\ NoneDone
    /\ IF isRunning
       THEN UNCHANGED <<trackedMessages, messageToCache, stockCache, chartCache,
                        userThreads, cleanupCycleCount, runs, isRunning,
                        cleanupInterval, timers>>
       ELSE /\ FreeRuns(R) # {}
            /\ Commit(FreeRun(R), runCleanup(View(FreeRun(R))))
            /\ timers' = timers + 1
            /\ cleanupInterval' = TRUE
            /\ isRunning' = TRUE
    /\ UNCHANGED <<platformVars, envVars>>

stop_keepsTimer ==
    /\ NoneDone
    /\ timers' = timers
    /\ cleanupInterval' = FALSE
    /\ isRunning' = FALSE
    /\ UNCHANGED <<trackedMessages, messageToCache, stockCache, chartCache,
                   userThreads, cleanupCycleCount, runs, platformVars, envVars>>

stop_leavesRunning ==
    /\ NoneDone
    /\ timers' = IF cleanupInterval THEN timers - 1 ELSE timers
    /\ cleanupInterval' = FALSE
    /\ isRunning' = isRunning
    /\ UNCHANGED <<trackedMessages, messageToCache, stockCache, chartCache,
                   userThreads, cleanupCycleCount, runs, platformVars, envVars>>

stop ==
    /\ NoneDone
    /\ timers' = IF cleanupInterval THEN timers - 1 ELSE timers
    /\ cleanupInterval' = FALSE
    /\ isRunning' = FALSE
    /\ UNCHANGED <<trackedMessages, messageToCache, stockCache, chartCache,
                   userThreads, cleanupCycleCount, runs, platformVars, envVars>>

\* the setInterval callback
TimerFire(R) ==
    /\ NoneDone
    /\ timers > 0
    /\ FreeRuns(R) # {}
    /\ Commit(FreeRun(R), runCleanup(View(FreeRun(R))))
    /\ UNCHANGED <<isRunning, cleanupInterval, timers, platformVars, envVars>>

triggerCleanup(R) ==
    /\ NoneDone
    /\ FreeRuns(R) # {}
    /\ Commit(FreeRun(R), runCleanup(View(FreeRun(R))))
    /\ UNCHANGED <<isRunning, cleanupInterval, timers, platformVars, envVars>>

\* the promise returned by runCleanup has resolved and its record is dropped
Settle(r) ==
    /\ runs[r].pc = "done"
    /\ runs' = [runs EXCEPT ![r] = IdleRun]
    /\ UNCHANGED <<trackedMessages, messageToCache, stockCache, chartCache,
                   userThreads, cleanupCycleCount, isRunning, cleanupInterval, timers,
                   platformVars, envVars>>

ChannelExists(c) == c = MainChannel \/ c \in platformThreads

WithChannel(S, outcome) == [S EXCEPT !.run.log[S.run.i].channel = outcome]

FetchChannelReturn_fetchesAnyway(r) ==
    /\ NoneDone
    /\ runs[r].pc = "fetchChannel"
    /\ \E outcome \in {"ok", "null", "throw"} :
         /\ outcome = "ok" => ChannelExists(Cur(runs[r]).channelId)
         /\ outcome = "null" => ~ChannelExists(Cur(runs[r]).channelId)
         /\ Commit(r, CASE outcome \in {"ok", "null"} ->
                             [WithChannel(View(r), outcome) EXCEPT
                                 !.run.pc = "fetchMessage"]
                        [] outcome = "throw" -> Fail(View(r)))
    /\ UNCHANGED <<isRunning, cleanupInterval, timers, platformVars, envVars>>

\* await this.client.channels.fetch(channelId) returns
FetchChannelReturn(r) ==
    /\ NoneDone
    /\ runs[r].pc = "fetchChannel"
    /\ \E outcome \in {"ok", "null", "throw"} :
         /\ outcome = "ok" => ChannelExists(Cur(runs[r]).channelId)
         /\ outcome = "null" => ~ChannelExists(Cur(runs[r]).channelId)
         /\ Commit(r, CASE outcome = "ok" ->
                             [WithChannel(View(r), outcome) EXCEPT
                                 !.run.pc = "fetchMessage"]
                        [] outcome = "null" ->
                             AfterMessage(WithChannel(View(r), outcome))
                        [] outcome = "throw" -> Fail(View(r)))
    /\ UNCHANGED <<isRunning, cleanupInterval, timers, platformVars, envVars>>

\* what a call on a message can return; "notfound" for a message that was
\* there means somebody else has deleted it by now
MessageOutcomes(m) ==
    IF m \in DOMAIN platformMessages
    THEN {"ok", "notfound", "forbidden", "other"} ELSE {"notfound", "other"}

WithErr(S, e, op) == [S EXCEPT !.run.log[S.run.i].msgErr = e,
                                 !.run.log[S.run.i].errOp = op]

\* await channel.messages.fetch(messageId) returns
FetchMessageReturn(r) ==
    /\ NoneDone
    /\ runs[r].pc = "fetchMessage"
    /\ \E outcome \in MessageOutcomes(Cur(runs[r]).messageId) :
         /\ Commit(r, CASE outcome = "ok" ->
                             [View(r) EXCEPT !.run.pc = "deleteMessage"]
                        [] outcome \in {"notfound", "forbidden"} ->
                             AfterMessage(WithErr(View(r), outcome, "fetch"))
                        [] outcome = "other" ->
                             Fail(WithErr(View(r), outcome, "fetch")))
         /\ platformMessages' =
                IF outcome = "notfound"
                THEN MapDelete(platformMessages, Cur(runs[r]).messageId)
                ELSE platformMessages
    /\ UNCHANGED <<isRunning, cleanupInterval, timers, platformThreads, archivedThreads,
                   userContent, envVars>>

\* await message.delete() returns
DeleteMessageReturn(r) ==
    /\ NoneDone
    /\ runs[r].pc = "deleteMessage"
    /\ LET m == Cur(runs[r]).messageId
       IN \E outcome \in MessageOutcomes(m) :
            /\ Commit(r, CASE outcome = "ok" -> AfterMessage(View(r))
                           [] outcome \in {"notfound", "forbidden"} ->
                                AfterMessage(WithErr(View(r), outcome, "delete"))
                           [] outcome = "other" ->
                                Fail(WithErr(View(r), outcome, "delete")))
            /\ platformMessages' = IF outcome \in {"ok", "notfound"}
                                   THEN MapDelete(platformMessages, m)
                                   ELSE platformMessages
    /\ UNCHANGED <<isRunning, cleanupInterval, timers, platformThreads, archivedThreads,
                   userContent, envVars>>

\* the platform removes a thread together with the messages inside it
ThreadRemoved(t) ==
    /\ platformThreads' = platformThreads \ {t}
    /\ archivedThreads' = archivedThreads \ {t}
    /\ userContent' = userContent \ {t}
    /\ platformMessages' = [m \in {x \in DOMAIN platformMessages :
                                      platformMessages[x] # t}
                              |-> platformMessages[m]]

WithThreadErr(S, e) == [S EXCEPT !.run.log[S.run.i].threadErr = e]

\* strategy 1: await this.client.channels.fetch(threadId) returns
FetchThreadReturn(r) ==
    /\ NoneDone
    /\ runs[r].pc = "fetchThread"
    /\ \E outcome \in {"ok", "throw"} :
         /\ outcome = "ok" => Cur(runs[r]).threadId \in platformThreads
         /\ Commit(r, IF outcome = "ok"
                      THEN [View(r) EXCEPT
                               !.run.threadToDelete = Cur(runs[r]).threadId,
                               !.run.pc = "deleteThread"]
                      ELSE [WithThreadErr(View(r), "fetch") EXCEPT
                               !.run.pc = "searchThreads"])
    /\ UNCHANGED <<isRunning, cleanupInterval, timers, platformVars, envVars>>

\* strategy 2: the bot's threads of the parent channel whose recent messages
\* include a message of the snapshot tracked for this user
ThreadCandidates(r) ==
    IF Cur(runs[r]).channelId # MainChannel THEN {}
    ELSE {t \in platformThreads :
            \E m \in DOMAIN platformMessages :
               platformMessages[m] = t /\ m \in runs[r].snap}

\* strategy 2: the search through the parent channel's threads returns
SearchThreadsReturn(r) ==
    /\ NoneDone
    /\ runs[r].pc = "searchThreads"
    /\ \E outcome \in {"ok", "throw"} :
         \/ /\ outcome = "ok" /\ ThreadCandidates(r) # {}
            /\ \E t \in ThreadCandidates(r) :
                 Commit(r, [View(r) EXCEPT !.run.threadToDelete = t,
                                           !.run.pc = "deleteThread"])
         \/ /\ outcome = "ok" /\ ThreadCandidates(r) = {}
            /\ Commit(r, ThreadDone(View(r)))
         \/ /\ outcome = "throw"
            /\ Commit(r, ThreadDone(WithThreadErr(View(r), "search")))
    /\ UNCHANGED <<isRunning, cleanupInterval, timers, platformVars, envVars>>

DeleteThreadReturn_rethrows(r) ==
    /\ NoneDone
    /\ runs[r].pc = "deleteThread"
    /\ LET t == runs[r].threadToDelete
       IN \E outcome \in {"ok", "notfound", "forbidden", "other"} :
            /\ outcome = "ok" => t \in platformThreads
            /\ outcome = "notfound" => t \notin platformThreads
            /\ Commit(r, IF outcome = "ok" THEN ThreadDone(View(r))
                         ELSE IF outcome = "other"
                              THEN Fail(WithThreadErr(View(r), outcome))
                              ELSE ThreadDone(WithThreadErr(View(r), outcome)))
            /\ IF outcome = "ok" THEN ThreadRemoved(t)
               ELSE UNCHANGED platformVars
    /\ UNCHANGED <<isRunning, cleanupInterval, timers, envVars>>

\* await threadToDelete.delete() returns; every error is logged and dropped
DeleteThreadReturn(r) ==
    /\ NoneDone
    /\ runs[r].pc = "deleteThread"
    /\ LET t == runs[r].threadToDelete
       IN \E outcome \in {"ok", "notfound", "forbidden", "other"} :
            /\ outcome = "ok" => t \in platformThreads
            /\ outcome = "notfound" => t \notin platformThreads
            /\ Commit(r, IF outcome = "ok" THEN ThreadDone(View(r))
                         ELSE ThreadDone(WithThreadErr(View(r), outcome)))
            /\ IF outcome = "ok" THEN ThreadRemoved(t)
               ELSE UNCHANGED platformVars
    /\ UNCHANGED <<isRunning, cleanupInterval, timers, envVars>>

\* ------------------------------------------------------- orphan thread sweep
\* the next channel of the sweep, or the end of the run
NextChannel(S) ==
    LET rest == Tail(S.run.channels)
    IN IF rest = <<>> THEN Done(S)
       ELSE [S EXCEPT !.run.pc = "orphanFetchChannel", !.run.channels = rest,
                      !.run.threads = <<>>, !.run.tracked = {}]

\* the loop over allThreads up to its next platform call
RECURSIVE OrphanLoop(_)
OrphanLoop(S) ==
    IF S.run.threads = <<>> THEN NextChannel(S)
    ELSE LET hasTrackedMessages == Head(S.run.threads) \in S.run.tracked
         IN IF hasTrackedMessages
            THEN OrphanLoop([S EXCEPT !.run.threads = Tail(S.run.threads)])
            ELSE [S EXCEPT !.run.pc = "orphanMessages"]

NextThread(S) == OrphanLoop([S EXCEPT !.run.threads = Tail(S.run.threads)])

\* cleanupOrphanedThreads: await this.client.channels.fetch(channelId) returns
OrphanFetchChannelReturn(r) ==
    /\ NoneDone
    /\ runs[r].pc = "orphanFetchChannel"
    /\ \E outcome \in {"ok", "throw"} :
         Commit(r, IF outcome = "ok" /\ Head(runs[r].channels) = MainChannel
                   THEN [View(r) EXCEPT !.run.pc = "orphanList"]
                   ELSE NextChannel(View(r)))
    /\ UNCHANGED <<isRunning, cleanupInterval, timers, platformVars, envVars>>

\* fetchActive() and fetchArchived() return; the tracked messages are read
OrphanListReturn(r) ==
    /\ NoneDone
    /\ runs[r].pc = "orphanList"
    /\ \E outcome \in {"ok", "throw"} :
         Commit(r, IF outcome = "ok"
                   THEN OrphanLoop([View(r) EXCEPT
                          !.run.threads =
                              SortedSeqBy(platformThreads \ archivedThreads)
                              \o SortedSeqBy(archivedThreads),
                          !.run.tracked =
                              {trackedMessages[m].threadId :
                                  m \in DOMAIN trackedMessages}])
                   ELSE NextChannel(View(r)))
    /\ UNCHANGED <<isRunning, cleanupInterval, timers, platformVars, envVars>>

\* await thread.messages.fetch({ limit: 10 }) returns
OrphanMessagesReturn(r) ==
    /\ NoneDone
    /\ runs[r].pc = "orphanMessages"
    /\ LET t == Head(runs[r].threads)
           hasUserContent == t \in userContent
       IN \E outcome \in {"ok", "throw"} :
            /\ outcome = "ok" => t \in platformThreads
            /\ Commit(r, IF outcome = "ok" /\ ~hasUserContent
                            /\ t \in archivedThreads
                         THEN [View(r) EXCEPT !.run.pc = "orphanDelete"]
                         ELSE NextThread(View(r)))
    /\ UNCHANGED <<isRunning, cleanupInterval, timers, platformVars, envVars>>

\* await thread.delete() returns
OrphanDeleteReturn(r) ==
    /\ NoneDone
    /\ runs[r].pc = "orphanDelete"
    /\ LET t == Head(runs[r].threads)
       IN \E outcome \in {"ok", "throw"} :
            /\ outcome = "ok" => t \in platformThreads
            /\ Commit(r, NextThread(View(r)))
            /\ IF outcome = "ok" THEN ThreadRemoved(t)
               ELSE UNCHANGED platformVars
    /\ UNCHANGED <<isRunning, cleanupInterval, timers, envVars>>

\* ------------------------------------------- interaction layer and platform
engineVars == <<isRunning, cleanupInterval, timers, cleanupCycleCount, runs>>

\* fetchStockData and generateChart leave an entry for (ticker, today)
CachesFilled(ticker) ==
    /\ stockCache' = MapSet(stockCache, getCacheKey(ticker), <<ticker, today>>)
    /\ chartCache' = MapSet(chartCache, getChartCacheKey(ticker), <<ticker, today>>)

\* thread flow, first half: getOrCreateUserThread and the tracking of the
\* "started a thread" notice when findThreadSystemMessage finds it
AcquireThread(u) ==
    /\ NoneDone
    /\ inter[u] = NoThread
    /\ \E probe \in {"ok", "fail"}, notice \in BOOLEAN :
         IF u \in DOMAIN userThreads /\ probe = "ok"
         THEN /\ userThreads[u] \in platformThreads
              /\ ~notice
              /\ inter' = [inter EXCEPT ![u] = userThreads[u]]
              /\ UNCHANGED <<nextThread, nextMsg, userThreads, platformThreads,
                             platformMessages, trackedMessages>>
         ELSE /\ probe = "fail"
              /\ nextThread <= MaxThreads
              /\ LET t == ThreadId(nextThread)
                 IN /\ nextThread' = nextThread + 1
                    /\ platformThreads' = platformThreads \cup {t}
                    /\ userThreads' = MapSet(userThreads, u, t)
                    /\ inter' = [inter EXCEPT ![u] = t]
                    /\ IF notice
                       THEN /\ nextMsg <= MaxMsg
                            /\ nextMsg' = nextMsg + 1
                            /\ platformMessages' =
                                   MapSet(platformMessages, nextMsg, MainChannel)
                            /\ trackedMessages' =
                                   trackThreadSystemMessage(nextMsg, MainChannel, t, u)
                       ELSE UNCHANGED <<nextMsg, platformMessages, trackedMessages>>
    /\ UNCHANGED <<now, messageToCache, registeredEphemeral, archivedThreads,
                   userContent, stockCache, chartCache, threadService,
                   engineVars,
                   lastCall, cacheFaults, calls, expiryTimers, hostVars>>

\* thread flow, second half: quote, chart, userThread.send and trackMessage;
\* a failed send ends in cleanupThreadOnError
SendChart(u) ==
    /\ NoneDone
    /\ inter[u] # NoThread
    /\ inter' = [inter EXCEPT ![u] = NoThread]
    /\ \E ticker \in Tickers :
         /\ CachesFilled(ticker)
         /\ IF inter[u] \in platformThreads
            THEN /\ nextMsg <= MaxMsg
                 /\ nextMsg' = nextMsg + 1
                 /\ platformMessages' = MapSet(platformMessages, nextMsg, inter[u])
                 /\ archivedThreads' = archivedThreads \ {inter[u]}
                 /\ trackedMessages' =
                        trackMessage(nextMsg, inter[u], u, ticker,
                                     <<getChartCacheKey(ticker)>>, inter[u])
                 /\ messageToCache' =
                        trackMessageCache(nextMsg, <<getChartCacheKey(ticker)>>)
                 /\ UNCHANGED userThreads
            ELSE /\ userThreads' = removeUserThread(userThreads, u)
                 /\ UNCHANGED <<nextMsg, platformMessages, archivedThreads,
                                trackedMessages, messageToCache>>
    /\ UNCHANGED <<now, nextThread, registeredEphemeral, platformThreads,
                   userContent, threadService, engineVars,
                   lastCall, cacheFaults, calls, expiryTimers, hostVars>>

\* ephemeral flow: the reply is tracked with isEphemeral = true as 7th argument
EphemeralChart(u) ==
    /\ NoneDone
    /\ nextMsg <= MaxMsg
    /\ nextMsg' = nextMsg + 1
    /\ \E ticker \in Tickers :
         /\ CachesFilled(ticker)
         /\ trackedMessages' =
                trackMessage(nextMsg, MainChannel, u, ticker,
                             <<getChartCacheKey(ticker)>>, NoThread)
         /\ messageToCache' =
                trackMessageCache(nextMsg, <<getChartCacheKey(ticker)>>)
    /\ registeredEphemeral' = registeredEphemeral \cup {nextMsg}
    /\ UNCHANGED <<now, nextThread, platformVars, userThreads, threadService,
                   inter, engineVars,
                   lastCall, cacheFaults, calls, expiryTimers, hostVars>>

\* a chart is posted in the main channel and generateChart, given its message
\* id, tracks it
ChannelChart(u) ==
    /\ NoneDone
    /\ nextMsg <= MaxMsg
    /\ nextMsg' = nextMsg + 1
    /\ platformMessages' = MapSet(platformMessages, nextMsg, MainChannel)
    /\ \E ticker \in Tickers :
         /\ CachesFilled(ticker)
         /\ trackedMessages' =
                trackMessage(nextMsg, MainChannel, u, ticker,
                             <<getChartCacheKey(ticker)>>, NoThread)
         /\ messageToCache' =
                trackMessageCache(nextMsg, <<getChartCacheKey(ticker)>>)
    /\ UNCHANGED <<now, nextThread, registeredEphemeral, platformThreads,
                   archivedThreads, userContent, userThreads, threadService,
                   inter, engineVars, lastCall, cacheFaults, calls, expiryTimers, hostVars>>

\* a button prompt is posted in the main channel and tracked
ButtonPrompt ==
    /\ NoneDone
    /\ nextMsg <= MaxMsg
    /\ nextMsg' = nextMsg + 1
    /\ platformMessages' = MapSet(platformMessages, nextMsg, MainChannel)
    /\ \E ticker \in Tickers :
         trackedMessages' = trackButtonMessage(nextMsg, MainChannel, <<ticker>>)
    /\ UNCHANGED <<now, nextThread, messageToCache, registeredEphemeral,
                   platformThreads, archivedThreads, userContent, stockCache,
                   chartCache, userThreads, threadService, inter, engineVars,
                   lastCall, cacheFaults, calls, expiryTimers, hostVars>>

\* the platform archives an inactive thread
ArchiveThread(t) ==
    /\ NoneDone
    /\ t \in platformThreads \ archivedThreads
    /\ t \notin userContent
    /\ archivedThreads' = archivedThreads \cup {t}
    /\ UNCHANGED <<now, nextMsg, nextThread, trackedMessages, messageToCache,
                   registeredEphemeral, platformMessages, platformThreads,
                   userContent, stockCache, chartCache, userThreads,
                   threadService, inter, engineVars,
                   lastCall, cacheFaults, calls, expiryTimers, hostVars>>

\* a user writes in a thread
UserPost(t) ==
    /\ NoneDone
    /\ t \in platformThreads
    /\ t \notin userContent
    /\ userContent' = userContent \cup {t}
    /\ archivedThreads' = archivedThreads \ {t}
    /\ UNCHANGED <<now, nextMsg, nextThread, trackedMessages, messageToCache,
                   registeredEphemeral, platformMessages, platformThreads,
                   stockCache, chartCache, userThreads, threadService, inter,
                   engineVars,
                   lastCall, cacheFaults, calls, expiryTimers, hostVars>>

\* the clock moves on by one retention period; an interaction, like a
\* platform call, is over within one clock step
AdvanceTime ==
    /\ NoneDone
    /\ now < MaxSteps * RetentionHours
    /\ \A r \in RunIds : runs[r].pc = "idle"
    /\ \A u \in Users : inter[u] = NoThread
    /\ now' = now + RetentionHours
    /\ userContent' = {}
    /\ UNCHANGED <<nextMsg, nextThread, trackedMessages, messageToCache,
                   registeredEphemeral, platformMessages, platformThreads,
                   archivedThreads, stockCache, chartCache, userThreads,
                   threadService, inter, engineVars,
                   lastCall, cacheFaults, calls, expiryTimers, hostVars>>

\* ------------------------------------------------------------ specification
InitCore(ts) ==
    /\ now = 0
    /\ nextMsg = 1
    /\ nextThread = 1
    /\ trackedMessages = EmptyMap
    /\ messageToCache = EmptyMap
    /\ registeredEphemeral = {}
    /\ platformMessages = EmptyMap
    /\ platformThreads = {}
    /\ archivedThreads = {}
    /\ userContent = {}
    /\ stockCache = EmptyMap
    /\ chartCache = EmptyMap
    /\ userThreads = EmptyMap
    /\ threadService = ts
    /\ inter = [u \in Users |-> NoThread]
    /\ isRunning = FALSE
    /\ cleanupInterval = FALSE
    /\ timers = 0
    /\ cleanupCycleCount = 0
    /\ lastCall = NoCall
    /\ cacheFaults = {}
    /\ calls = [c \in CallIds |-> IdleCall]
    /\ expiryTimers = {}
    /\ runs = [r \in RunIds |-> IdleRun]

InitWith(ts) == InitCore(ts) /\ InitHost

\* the engine as index.js constructs it: no thread service
Init == InitWith(FALSE)

Next ==
    \/ start(RunIds)
    \/ stop
    \/ TimerFire(RunIds)
    \/ triggerCleanup(RunIds)
    \/ \E r \in RunIds : Settle(r)
    \/ \E r \in RunIds : FetchChannelReturn(r)
    \/ \E r \in RunIds : FetchMessageReturn(r)
    \/ \E r \in RunIds : DeleteMessageReturn(r)
    \/ \E u \in Users : ChannelChart(u)
    \/ \E u \in Users : EphemeralChart(u)
    \/ ButtonPrompt
    \/ AdvanceTime

Spec == Init /\ [][Next]_vars

\* the engine with a thread service, as the retention tests construct it
InitThreads == InitWith(TRUE)

NextThreads ==
    \/ start(ThreadRunIds)
    \/ stop
    \/ TimerFire(ThreadRunIds)
    \/ triggerCleanup(ThreadRunIds)
    \/ \E r \in ThreadRunIds : Settle(r)
    \/ \E r \in ThreadRunIds : FetchChannelReturn(r)
    \/ \E r \in ThreadRunIds : FetchMessageReturn(r)
    \/ \E r \in ThreadRunIds : DeleteMessageReturn(r)
    \/ \E r \in ThreadRunIds : FetchThreadReturn(r)
    \/ \E r \in ThreadRunIds : SearchThreadsReturn(r)
    \/ \E r \in ThreadRunIds : DeleteThreadReturn(r)
    \/ \E r \in ThreadRunIds : OrphanFetchChannelReturn(r)
    \/ \E r \in ThreadRunIds : OrphanListReturn(r)
    \/ \E r \in ThreadRunIds : OrphanMessagesReturn(r)
    \/ \E r \in ThreadRunIds : OrphanDeleteReturn(r)
    \/ \E u \in Users : AcquireThread(u)
    \/ \E u \in Users : SendChart(u)
    \/ \E u \in Users : EphemeralChart(u)
    \/ \E t \in AllThreads : ArchiveThread(t)
    \/ \E t \in AllThreads : UserPost(t)
    \/ AdvanceTime

SpecThreads == InitThreads /\ [][NextThreads]_vars

\* the registry query on its own: the registry is any registry the tracking
\* calls can have built (ids in creation order, every kind of artifact, some
\* already untracked) and a tick queries it
Kinds == {"chart_response", "button_interaction", "thread_system_message"}
Clock == {k * RetentionHours : k \in 0..MaxSteps}
Absent == [type |-> "absent", createdAt |-> 0]
Histories ==
    {h \in [1..MaxQueryMsg -> [type : Kinds, createdAt : Clock] \cup {Absent}] :
        \A a, b \in 1..MaxQueryMsg :
            (a < b /\ h[a] # Absent /\ h[b] # Absent)
                => h[a].createdAt <= h[b].createdAt}

Artifact(m, kind, t) ==
    [messageId |-> m, channelId |-> MainChannel,
     userId |-> IF kind = "button_interaction" THEN NoUser ELSE "u1",
     ticker |-> IF kind = "chart_response" THEN "AAPL" ELSE "none",
     tickers |-> IF kind = "button_interaction" THEN <<"AAPL">> ELSE <<>>,
     threadId |-> IF kind = "thread_system_message" THEN ThreadId(1) ELSE NoThread,
     createdAt |-> t,
     cacheKeys |-> IF kind = "chart_response"
                   THEN <<(<<"chart", "AAPL", t \div 24>>)>> ELSE <<>>,
     type |-> kind, isEphemeral |-> FALSE]

Registry(h) ==
    [m \in {x \in 1..MaxQueryMsg : h[x] # Absent}
        |-> Artifact(m, h[m].type, h[m].createdAt)]

InitExpired ==
    /\ now \in Clock
    /\ nextMsg = MaxQueryMsg + 1
    /\ nextThread = 1
    /\ \E h \in Histories :
         /\ \A m \in 1..MaxQueryMsg : h[m] # Absent => h[m].createdAt <= now
         /\ trackedMessages = Registry(h)
         /\ messageToCache =
                [m \in {x \in DOMAIN Registry(h) : Registry(h)[x].cacheKeys # <<>>}
                    |-> Registry(h)[m].cacheKeys]
         /\ platformMessages = [m \in DOMAIN Registry(h) |-> MainChannel]
    /\ registeredEphemeral = {}
    /\ platformThreads = {}
    /\ archivedThreads = {}
    /\ userContent = {}
    /\ stockCache = EmptyMap
    /\ chartCache = EmptyMap
    /\ userThreads = EmptyMap
    /\ threadService = FALSE
    /\ inter = [u \in Users |-> NoThread]
    /\ isRunning = FALSE
    /\ cleanupInterval = FALSE
    /\ timers = 0
    /\ cleanupCycleCount = 0
    /\ lastCall = NoCall
    /\ cacheFaults = {}
    /\ calls = [c \in CallIds |-> IdleCall]
    /\ expiryTimers = {}
    /\ InitHost
    /\ runs = [r \in RunIds |-> IdleRun]

NextExpired ==
    \/ triggerCleanup(RunIds)
    \/ \E r \in RunIds : Settle(r)

SpecExpired == InitExpired /\ [][NextExpired]_vars

\* ------------------------------------------------------------------ claims
Ids(run) == {run.expired[j].messageId : j \in 1..Len(run.expired)}
Entries(run) == 1..Len(run.expired)
Expired(m) == trackedMessages[m].createdAt < now - RetentionHours
Stale(m) == trackedMessages[m].createdAt < now - SafetyBufferHours
\* the per-artifact cleanup of entry j was abandoned by an exception
Abandoned(run, j) == run.log[j].result = "error"
\* the channel fetch went through for entry j, whatever the message calls did
ChannelFetched(run, j) ==
    run.log[j].result = "ok" \/ run.log[j].msgErr # "none"

\* C1 (as stated): when a tick has ended, every artifact of its expired list
\* whose channel was fetched is out of the registry and has had its cache
\* keys passed to both caches, whatever the message fetch/delete raised.
C1_UntrackedWhateverTheError ==
    \A r \in RunIds :
        runs[r].pc = "done" =>
            \A j \in Entries(runs[r]) :
                ChannelFetched(runs[r], j) =>
                    /\ runs[r].expired[j].messageId \notin DOMAIN trackedMessages
                    /\ runs[r].log[j].chart = runs[r].expired[j].cacheKeys

\* C1 (amended): an artifact of the expired list is untracked and has its
\* cache keys released exactly when its cleanup was not abandoned: after no
\* error, not-found or forbidden it is untracked with all its keys passed to
\* both caches; after any other error of the message fetch/delete (or a
\* throwing channel fetch) the cleanup is abandoned with no key released.
C1_UntrackedUnlessRethrown ==
    \A r \in RunIds :
        \A j \in Entries(runs[r]) :
            LET e == runs[r].log[j]
                md == runs[r].expired[j]
            IN /\ e.result = "ok" =>
                    /\ md.messageId \notin DOMAIN trackedMessages
                    /\ md.messageId \notin DOMAIN messageToCache
                    /\ e.stock = md.cacheKeys
                    /\ e.chart = md.cacheKeys
                    /\ e.msgErr \in {"none", "notfound", "forbidden"}
               /\ e.result = "error" =>
                    /\ e.msgErr \in {"none", "other"}
                    /\ e.stock = <<>>
                    /\ e.chart = <<>>
                    /\ ~e.threadCheck
               /\ (runs[r].pc = "done" /\ e.msgErr = "other") => e.result = "error"

\* a finished tick that untracked one artifact after a forbidden delete and
\* abandoned another, still tracked, after a transient error
C1_Witness ==
    \E r \in RunIds :
        /\ runs[r].pc = "done"
        /\ \E j, k \in Entries(runs[r]) :
             /\ runs[r].log[j].result = "ok"
             /\ runs[r].log[j].msgErr = "forbidden"
             /\ runs[r].log[j].errOp = "delete"
             /\ runs[r].expired[j].cacheKeys # <<>>
             /\ runs[r].log[k].result = "error"
             /\ runs[r].log[k].msgErr = "other"
             /\ runs[r].expired[k].messageId \in DOMAIN trackedMessages

\* C2 (as stated): an artifact whose message fetch/delete failed with a
\* transient error, and which is tracked when the tick takes its last step,
\* is still in the registry once that tick has ended.
C2_StillTrackedAfterTick ==
    [][\A r \in RunIds :
          (InFlight(r) /\ runs'[r].pc = "done") =>
              \A j \in Entries(runs[r]) :
                  (/\ runs'[r].log[j].msgErr = "other"
                   /\ runs[r].expired[j].messageId \in DOMAIN trackedMessages)
                      => runs[r].expired[j].messageId \in DOMAIN trackedMessages']_vars

\* C2 (amended): the cleanup that fails with a transient error releases no
\* cache entry and leaves the artifact's registry entry as it is, unless the
\* tick ends in that step and its stale sweep forgets an entry older than
\* retention + 4 hours; and every tick that begins takes up every artifact
\* that is expired and tracked at that moment, starting with the first.
C2_KeptAndTakenUpAgain ==
    [][\A r \in RunIds :
          /\ (/\ InFlight(r)
              /\ runs'[r].i = runs[r].i + 1
              /\ Abandoned(runs'[r], runs[r].i)
              /\ Cur(runs[r]).messageId \in DOMAIN trackedMessages)
                 => LET m == Cur(runs[r]).messageId
                    IN /\ stockCache' = stockCache
                       /\ chartCache' = chartCache
                       /\ \/ /\ m \in DOMAIN trackedMessages'
                             /\ trackedMessages'[m] = trackedMessages[m]
                             /\ m \in DOMAIN messageToCache'
                                   <=> m \in DOMAIN messageToCache
                          \/ /\ runs'[r].pc = "done"
                             /\ Stale(m)
          /\ (runs[r].pc = "idle" /\ runs'[r].pc # "idle")
                 => /\ Ids(runs'[r]) = {m \in DOMAIN trackedMessages : Expired(m)}
                    /\ Ids(runs'[r]) # {} =>
                          /\ runs'[r].pc = "fetchChannel"
                          /\ runs'[r].i = 1]_vars

\* a tick has ended after a transient error on deleting a message, and the
\* artifact is still tracked and expired, so the next tick will find it
C2_Witness ==
    \E r \in RunIds :
        /\ runs[r].pc = "done"
        /\ \E j \in Entries(runs[r]) :
             /\ runs[r].log[j].msgErr = "other"
             /\ runs[r].log[j].errOp = "delete"
             /\ runs[r].expired[j].messageId \in DOMAIN trackedMessages
             /\ Expired(runs[r].expired[j].messageId)

\* C3: no tick has a message fetch or a message delete in flight for an
\* artifact that the interaction layer registered with the ephemeral flag.
C3_NoPlatformCallForEphemeral ==
    \A r \in RunIds :
        runs[r].pc \in {"fetchMessage", "deleteMessage"} =>
            Cur(runs[r]).messageId \notin registeredEphemeral

\* C4: cleanupThreadIfNeeded does not go on to delete platform thread T for
\* user u while another, unexpired artifact of u referencing T is tracked:
\* the artifacts live at the moment of removal decide, not the snapshot
\* taken before the awaits.
C4_NoThreadDeleteWhileReferenced ==
    [][\A r \in ThreadRunIds :
          (runs[r].pc # "deleteThread" /\ runs'[r].pc = "deleteThread") =>
              ~\E m \in DOMAIN trackedMessages :
                  /\ m # Cur(runs[r]).messageId
                  /\ trackedMessages[m].userId = Cur(runs[r]).userId
                  /\ trackedMessages[m].threadId = runs'[r].threadToDelete
                  /\ ~Expired(m)]_vars

\* C5: at most one execution of runCleanup is suspended at a platform call.
C5_SingleTickInProgress ==
    Cardinality({r \in RunIds : InFlight(r)}) <= 1

\* C6: the expired list a tick obtains from getExpiredMessages holds exactly
\* the tracked artifacts whose age is more than the retention period, each
\* once and as tracked, whatever their kind; an artifact whose age is exactly
\* the retention period is not in it.
C6_ExpiredExactlyOlderThanRetention ==
    \A r \in RunIds :
        runs[r].pc # "idle" =>
            LET older == {m \in DOMAIN trackedMessages :
                             now - trackedMessages[m].createdAt > RetentionHours}
            IN /\ Ids(runs[r]) = older
               /\ Len(runs[r].expired) = Cardinality(older)
               /\ \A j \in Entries(runs[r]) :
                     runs[r].expired[j] =
                         trackedMessages[runs[r].expired[j].messageId]
               /\ \A m \in DOMAIN trackedMessages :
                     now - trackedMessages[m].createdAt = RetentionHours
                         => m \notin Ids(runs[r])

\* a tick holds two expired artifacts of different kinds while an artifact of
\* the third kind, aged exactly the retention period, was not returned
C6_Witness ==
    \E r \in RunIds :
        /\ runs[r].pc = "fetchChannel"
        /\ Len(runs[r].expired) = 2
        /\ runs[r].expired[1].type # runs[r].expired[2].type
        /\ \E m \in DOMAIN trackedMessages :
             /\ now - trackedMessages[m].createdAt = RetentionHours
             /\ m \notin Ids(runs[r])
             /\ trackedMessages[m].type \notin
                    {runs[r].expired[1].type, runs[r].expired[2].type}

\* C7: a tracked artifact still inside its retention window keeps its
\* platform message (unless it is an ephemeral reply, which has none to
\* delete) and keeps the cache entries its cache keys name.
C7_FreshArtifactUntouched ==
    \A m \in DOMAIN trackedMessages :
        ~Expired(m) =>
            /\ m \in registeredEphemeral \/ m \in DOMAIN platformMessages
            /\ \A j \in 1..Len(trackedMessages[m].cacheKeys) :
                  trackedMessages[m].cacheKeys[j] \in DOMAIN chartCache

\* C8: a tick works through its whole expired list whatever fails on the
\* way: the entries before the current one have all been attempted, and when
\* the tick has ended every entry has been attempted, the ones after a
\* failure included.
C8_FailureDoesNotStopTick ==
    \A r \in RunIds :
        /\ InFlight(r) =>
              /\ runs[r].i \in Entries(runs[r])
              /\ \A j \in Entries(runs[r]) :
                    j < runs[r].i <=> runs[r].log[j].result # "pending"
        /\ runs[r].pc = "done" =>
              \A j \in Entries(runs[r]) : runs[r].log[j].result # "pending"

\* a finished tick whose first artifact failed and whose second artifact was
\* deleted on the platform and untracked
C8_Witness ==
    \E r \in RunIds :
        /\ runs[r].pc = "done"
        /\ Len(runs[r].expired) = 2
        /\ runs[r].log[1].result = "error"
        /\ runs[r].log[2].result = "ok"
        /\ runs[r].log[2].msgErr = "none"
        /\ runs[r].expired[2].messageId \notin DOMAIN trackedMessages
        /\ runs[r].expired[2].messageId \notin DOMAIN platformMessages

\* C9: once a message fetch or delete has answered not-found for an expired
\* artifact, its cache keys have been passed to both caches and the thread
\* check has been called; the cleanup is never abandoned, and when the
\* per-artifact cleanup has returned, at the latest when the tick has ended,
\* it counts as a success and the artifact is untracked.
C9_NotFoundIsSuccess ==
    \A r \in ThreadRunIds :
        \A j \in Entries(runs[r]) :
            runs[r].log[j].msgErr = "notfound" =>
                /\ runs[r].log[j].stock = runs[r].expired[j].cacheKeys
                /\ runs[r].log[j].chart = runs[r].expired[j].cacheKeys
                /\ runs[r].log[j].threadCheck
                /\ runs[r].log[j].result # "error"
                /\ runs[r].log[j].result = "pending" =>
                      /\ j = runs[r].i
                      /\ runs[r].pc \in {"fetchThread", "searchThreads",
                                         "deleteThread"}
                /\ runs[r].log[j].result = "ok" =>
                      runs[r].expired[j].messageId \notin DOMAIN trackedMessages

\* a finished tick that met not-found on an artifact with a cache key and a
\* thread, released the key, ran the thread check and untracked the artifact
C9_Witness ==
    \E r \in ThreadRunIds :
        /\ runs[r].pc = "done"
        /\ \E j \in Entries(runs[r]) :
             /\ runs[r].log[j].msgErr = "notfound"
             /\ runs[r].log[j].result = "ok"
             /\ runs[r].expired[j].cacheKeys # <<>>
             /\ runs[r].expired[j].threadId # NoThread
             /\ runs[r].log[j].chart = runs[r].expired[j].cacheKeys
             /\ runs[r].log[j].threadCheck
             /\ runs[r].expired[j].messageId \notin DOMAIN trackedMessages

\* C10: while a tick holds a forbidden answer to its delete of an artifact's
\* message, no tick goes on to call delete for that artifact again.
C10_NoDeleteAfterForbidden ==
    [][\A q \in RunIds :
          (runs[q].pc = "fetchMessage" /\ runs'[q].pc = "deleteMessage") =>
              ~\E r \in RunIds : \E j \in Entries(runs[r]) :
                  /\ runs[r].log[j].msgErr = "forbidden"
                  /\ runs[r].log[j].errOp = "delete"
                  /\ runs[r].expired[j].messageId = Cur(runs[q]).messageId]_vars

\* the engine once started and never stopped.  The timer keeps firing, every
\* platform call returns (with a result or an error), a promise that has
\* resolved is settled, and the clock keeps moving: it is held back here only
\* while a run is suspended, which happens again and again but never for ever.
NextRunning ==
    \/ start(ThreadRunIds)
    \/ TimerFire(ThreadRunIds)
    \/ \E r \in ThreadRunIds : Settle(r)
    \/ \E r \in ThreadRunIds : FetchChannelReturn(r)
    \/ \E r \in ThreadRunIds : FetchMessageReturn(r)
    \/ \E r \in ThreadRunIds : DeleteMessageReturn(r)
    \/ \E u \in Users : ChannelChart(u)
    \/ \E u \in Users : EphemeralChart(u)
    \/ ButtonPrompt
    \/ AdvanceTime

\* what the engine does on its own once it may: begin, go on after a platform
\* call has returned, settle
EngineStep ==
    \/ start(ThreadRunIds)
    \/ \E r \in ThreadRunIds : Settle(r)
    \/ \E r \in ThreadRunIds : FetchChannelReturn(r)
    \/ \E r \in ThreadRunIds : FetchMessageReturn(r)
    \/ \E r \in ThreadRunIds : DeleteMessageReturn(r)

\* the states in which each of these can take a step that changes something
EngineCan ==
    \/ ~isRunning /\ NoneDone /\ FreeRuns(ThreadRunIds) # {}
    \/ \E r \in ThreadRunIds :
          runs[r].pc \in {"done", "fetchChannel", "fetchMessage", "deleteMessage"}
TimerCan == NoneDone /\ timers > 0 /\ FreeRuns(ThreadRunIds) # {}

\* weak fairness of the engine's own steps and strong fairness of the timer,
\* written out with EngineCan and TimerCan for ENABLED <<EngineStep>>_vars and
\* ENABLED <<TimerFire(ThreadRunIds)>>_vars; strong fairness of the clock
FairRunning ==
    /\ []<>(~EngineCan) \/ []<><<EngineStep>>_vars
    /\ <>[](~TimerCan) \/ []<><<TimerFire(ThreadRunIds)>>_vars
    /\ SF_vars(AdvanceTime)

SpecRunning == Init /\ [][NextRunning]_vars /\ FairRunning

\* the clock of the model can still reach the moment artifact m is stale
CanGrowStale(m) ==
    trackedMessages[m].createdAt + SafetyBufferHours < MaxSteps * RetentionHours

\* C11: with the engine running and time advancing, a tracked artifact that
\* the clock can outlast by more than retention + safety buffer is eventually
\* out of the registry, whatever the platform calls made for it return.
C11_EventuallyForgotten ==
    \A m \in MsgIds :
        (m \in DOMAIN trackedMessages /\ CanGrowStale(m))
            ~> (m \notin DOMAIN trackedMessages)

\* a tick has ended in which the cleanup of an artifact was abandoned after a
\* failed platform call and the closing stale sweep forgot the artifact
C11_Witness ==
    \E r \in RunIds :
        /\ runs[r].pc = "done"
        /\ \E j \in Entries(runs[r]) :
             /\ Abandoned(runs[r], j)
             /\ runs[r].expired[j].createdAt < now - SafetyBufferHours
             /\ runs[r].expired[j].messageId \notin DOMAIN trackedMessages

\* ------------------------------------------------ the periodic orphan sweep
\* the running engine with a thread service, its users and the platform
NextSweeping ==
    \/ start(ThreadRunIds)
    \/ TimerFire(ThreadRunIds)
    \/ \E r \in ThreadRunIds : Settle(r)
    \/ \E r \in ThreadRunIds : FetchChannelReturn(r)
    \/ \E r \in ThreadRunIds : FetchMessageReturn(r)
    \/ \E r \in ThreadRunIds : DeleteMessageReturn(r)
    \/ \E r \in ThreadRunIds : FetchThreadReturn(r)
    \/ \E r \in ThreadRunIds : SearchThreadsReturn(r)
    \/ \E r \in ThreadRunIds : DeleteThreadReturn(r)
    \/ \E r \in ThreadRunIds : OrphanFetchChannelReturn(r)
    \/ \E r \in ThreadRunIds : OrphanListReturn(r)
    \/ \E r \in ThreadRunIds : OrphanMessagesReturn(r)
    \/ \E r \in ThreadRunIds : OrphanDeleteReturn(r)
    \/ \E u \in Users : AcquireThread(u)
    \/ \E u \in Users : SendChart(u)
    \/ \E u \in Users : EphemeralChart(u)
    \/ \E t \in AllThreads : ArchiveThread(t)
    \/ \E t \in AllThreads : UserPost(t)
    \/ AdvanceTime

\* what the engine does on its own, thread release and orphan sweep included
SweepStep ==
    \/ EngineStep
    \/ \E r \in ThreadRunIds : FetchThreadReturn(r)
    \/ \E r \in ThreadRunIds : SearchThreadsReturn(r)
    \/ \E r \in ThreadRunIds : DeleteThreadReturn(r)
    \/ \E r \in ThreadRunIds : OrphanFetchChannelReturn(r)
    \/ \E r \in ThreadRunIds : OrphanListReturn(r)
    \/ \E r \in ThreadRunIds : OrphanMessagesReturn(r)
    \/ \E r \in ThreadRunIds : OrphanDeleteReturn(r)

SweepCan ==
    \/ ~isRunning /\ NoneDone /\ FreeRuns(ThreadRunIds) # {}
    \/ \E r \in ThreadRunIds : runs[r].pc # "idle"

\* an interaction that holds a thread can go on to send its chart
InteractionCan ==
    /\ NoneDone
    /\ \E u \in Users :
         /\ inter[u] # NoThread
         /\ inter[u] \in platformThreads => nextMsg <= MaxMsg

\* weak fairness of the engine's own steps, strong fairness of the interaction
\* handler and of the timer (a finished tick is settled before either goes
\* on), written out with SweepCan, InteractionCan and TimerCan for
\* ENABLED <<SweepStep>>_vars, ENABLED <<\E u \in Users : SendChart(u)>>_vars
\* and ENABLED <<TimerFire(ThreadRunIds)>>_vars; strong fairness of the clock
FairSweeping ==
    /\ []<>(~SweepCan) \/ []<><<SweepStep>>_vars
    /\ <>[](~InteractionCan) \/ []<><<\E u \in Users : SendChart(u)>>_vars
    /\ <>[](~TimerCan) \/ []<><<TimerFire(ThreadRunIds)>>_vars
    /\ SF_vars(AdvanceTime)

SpecSweeping == InitThreads /\ [][NextSweeping]_vars /\ FairSweeping

\* thread t is on the platform, archived, without recent user activity and
\* referenced by no tracked artifact
Orphaned(t) ==
    /\ t \in platformThreads
    /\ t \in archivedThreads
    /\ t \notin userContent
    /\ \A m \in DOMAIN trackedMessages : trackedMessages[m].threadId # t

\* C12: while the engine is Running no thread of the bot stays orphaned
\* (archived, no recent user activity, referenced by no tracked artifact)
\* for ever, and in particular not while the registry is empty: the periodic
\* orphan sweep deletes it
C12_OrphanEventuallyDeleted ==
    \A t \in AllThreads :
        []<>(~(Orphaned(t) /\ DOMAIN trackedMessages = {}))

\* ------------------------------------------------------- the thread release
ThreadPcs == {"fetchThread", "searchThreads", "deleteThread"}

\* this step of run r begins the thread release for the artifact the run is
\* at: removeUserThread is called and the search for the thread starts
ReleaseBegins(r) ==
    /\ runs'[r].pc \in {"fetchThread", "searchThreads"}
    /\ runs[r].pc \notin ThreadPcs \/ runs'[r].i # runs[r].i

\* the owner's tracked artifacts after the step, and those among them that
\* reference thread t
TrackedOf(u) == {m \in DOMAIN trackedMessages' : trackedMessages'[m].userId = u}
TrackedOfIn(u, t) == {m \in TrackedOf(u) : trackedMessages'[m].threadId = t}

\* C13 as stated: the thread release is begun only for an artifact that
\* carries both an owner and a threadId, and the remaining-artifacts check
\* counted the owner's tracked artifacts that reference that same thread
C13_ReleaseOnlyForThreadArtifacts ==
    [][\A r \in RunIds :
         ReleaseBegins(r) =>
             LET md == Cur(runs'[r])
             IN /\ md.userId # NoUser
                /\ md.threadId # NoThread
                /\ runs'[r].snap = TrackedOfIn(md.userId, md.threadId)]_vars

\* C13: with a thread service configured, the thread release is begun only
\* for an artifact that carries an owner, with or without a threadId, and
\* only when the owner has at most one tracked artifact at that moment, all
\* the owner's tracked artifacts being counted whichever thread they
\* reference; the release removes the owner's handle
C13_ReleaseForOwnerCountingAll ==
    [][\A r \in RunIds :
         ReleaseBegins(r) =>
             LET md == Cur(runs'[r])
             IN /\ threadService
                /\ md.userId # NoUser
                /\ runs'[r].snap = TrackedOf(md.userId)
                /\ Cardinality(TrackedOf(md.userId)) <= 1
                /\ md.userId \notin DOMAIN userThreads']_vars

\* a release under way for an artifact with an owner and no threadId
C13_Witness ==
    \E r \in RunIds :
        /\ runs[r].pc = "searchThreads"
        /\ Cur(runs[r]).userId # NoUser
        /\ Cur(runs[r]).threadId = NoThread
        /\ Cur(runs[r]).userId \notin DOMAIN userThreads

\* this step of run r goes through cleanupThreadIfNeeded for the artifact the
\* run is at: the platform call for its message has returned
ThreadChecked(r) ==
    /\ runs[r].pc \in {"fetchChannel", "fetchMessage", "deleteMessage"}
    /\ runs'[r].log[runs[r].i].threadCheck

\* the other tracked artifacts of the owner of the artifact run r is at
OthersOfOwner(r) ==
    {m \in DOMAIN trackedMessages \ {Cur(runs[r]).messageId} :
        trackedMessages[m].userId = Cur(runs[r]).userId}

\* the handle of u is removed exactly when the artifact cleaned up is the
\* last one tracked for u
HandleRemovedIffLast(r) ==
    LET u == Cur(runs[r]).userId
    IN (ThreadChecked(r) /\ u # NoUser) =>
          IF OthersOfOwner(r) = {}
          THEN /\ ReleaseBegins(r)
               /\ u \notin DOMAIN userThreads'
          ELSE /\ ~ReleaseBegins(r)
               /\ userThreads' = userThreads
               /\ runs'[r].pc \notin ThreadPcs

\* no thread delete is issued in the cleanup of an artifact whose owner has
\* another tracked artifact
NoDeleteWhileOthers(r) ==
    (runs[r].pc # "deleteThread" /\ runs'[r].pc = "deleteThread") =>
        OthersOfOwner(r) = {}

\* C14: when the cleanup of an expired artifact of user u reaches the thread
\* check, u's handle is removed if and only if u has no other tracked
\* artifact at that moment; while u has another tracked artifact
\* removeUserThread is not called and no thread delete is issued for u
C14_HandleRemovedIffNoOtherArtifact ==
    [][\A r \in ThreadRunIds :
          HandleRemovedIffLast(r) /\ NoDeleteWhileOthers(r)]_vars

\* ------------------------------------------------------- start and stop
\* C15: after any sequence of start, stop and tick events at most one
\* interval timer is armed, and one is armed exactly while the engine is
\* Running; a start() call made while Running changes nothing (no second
\* timer, no further run of runCleanup); a start() call made while Stopped
\* arms one timer, the only one, and sets Running
C15_SingleTimer ==
    /\ [](/\ timers <= 1
          /\ isRunning <=> timers = 1
          /\ cleanupInterval <=> timers = 1)
    /\ [][(isRunning /\ start(RunIds)) => UNCHANGED vars]_vars
    /\ [][(~isRunning /\ start(RunIds)) =>
             /\ timers = 0 /\ timers' = 1
             /\ isRunning' /\ cleanupInterval']_vars

\* the engine is Running with its one timer armed and a tick in flight, the
\* state in which a further start() call changes nothing
C15_Witness ==
    /\ isRunning
    /\ timers = 1
    /\ \E r \in RunIds : InFlight(r)

\* the engine started and stopped at will: what a stop leaves behind
NextStopping ==
    \/ start(ThreadRunIds)
    \/ stop
    \/ TimerFire(ThreadRunIds)
    \/ \E r \in ThreadRunIds : Settle(r)
    \/ \E r \in ThreadRunIds : FetchChannelReturn(r)
    \/ \E r \in ThreadRunIds : FetchMessageReturn(r)
    \/ \E r \in ThreadRunIds : DeleteMessageReturn(r)
    \/ \E u \in Users : ChannelChart(u)
    \/ \E u \in Users : EphemeralChart(u)
    \/ ButtonPrompt
    \/ AdvanceTime

\* a platform call of a suspended run returns
ReturnStep ==
    \/ \E r \in ThreadRunIds : FetchChannelReturn(r)
    \/ \E r \in ThreadRunIds : FetchMessageReturn(r)
    \/ \E r \in ThreadRunIds : DeleteMessageReturn(r)

ReturnCan ==
    \E r \in ThreadRunIds :
        runs[r].pc \in {"fetchChannel", "fetchMessage", "deleteMessage"}

\* every platform call returns and every resolved promise is settled: weak
\* fairness of the returns, written out with ReturnCan for
\* ENABLED <<ReturnStep>>_vars, and of Settle.  Nothing obliges anyone to call
\* start or stop, and the timer and the clock are under no obligation here.
FairStopping ==
    /\ []<>(~ReturnCan) \/ []<><<ReturnStep>>_vars
    /\ WF_vars(\E r \in ThreadRunIds : Settle(r))

SpecStopping == Init /\ [][NextStopping]_vars /\ FairStopping

\* C16: a timer-driven tick begins only while the engine is Running, so none
\* begins after stop() until start() is called again; and a tick in flight
\* while the engine is Stopped runs to completion: every artifact of its list
\* is processed, and untracked when its cleanup went through
C16_StopLetsTickFinish ==
    /\ [][TimerFire(ThreadRunIds) => isRunning]_vars
    /\ \A r \in ThreadRunIds :
          (InFlight(r) /\ ~isRunning) ~>
              /\ runs[r].pc = "done"
              /\ \A j \in Entries(runs[r]) :
                    /\ runs[r].log[j].result \in {"ok", "error"}
                    /\ runs[r].log[j].result = "ok" =>
                          runs[r].expired[j].messageId \notin DOMAIN trackedMessages

\* a tick that was in flight with artifacts left when the engine was Stopped
\* has finished while the engine is still Stopped
C16_Witness ==
    \E r \in ThreadRunIds :
        /\ ~isRunning
        /\ timers = 0
        /\ runs[r].pc = "done"
        /\ Len(runs[r].expired) = 2
        /\ \A j \in Entries(runs[r]) :
              /\ runs[r].log[j].result = "ok"
              /\ runs[r].expired[j].messageId \notin DOMAIN trackedMessages

\* --------------------------------------------- the registry called directly
\* MessageTrackingService under any sequence of calls of its methods, with
\* any id, tracked or not, as its tests call it.  Map order is not modelled
\* here: these calls read and write the two maps by key.
getCacheKeysForMessage(mc, messageId) ==
    IF messageId \in DOMAIN mc THEN mc[messageId] ELSE <<>>

RECURSIVE SumLen(_, _)
SumLen(mc, ids) ==
    IF ids = {} THEN 0
    ELSE LET m == CHOOSE x \in ids : TRUE
         IN Len(mc[m]) + SumLen(mc, ids \ {m})

getStats(tm, mc) ==
    [totalMessages |-> Cardinality(DOMAIN tm),
     totalCacheEntries |-> SumLen(mc, DOMAIN mc),
     messageTypes |->
         [ty \in {tm[m].type : m \in DOMAIN tm} |->
             Cardinality({m \in DOMAIN tm : tm[m].type = ty})]]

\* the number cleanupTrackingData returns
cleaned(S) ==
    LET cutoffTime == S.now - SafetyBufferHours
    IN Cardinality({m \in DOMAIN S.tm : S.tm[m].createdAt < cutoffTime})

\* the cacheKeys argument of a trackMessage call: none, or one key of today
KeyKinds == {"none", "chart", "quote"}
KeyList(kind, ticker) ==
    IF kind = "chart" THEN <<getChartCacheKey(ticker)>>
    ELSE IF kind = "quote" THEN <<getCacheKey(ticker)>>
    ELSE <<>>

\* everything a registry method leaves alone
outsideRegistry ==
    <<now, nextMsg, nextThread, registeredEphemeral, platformVars, stockCache,
      chartCache, userThreads, threadService, inter, cacheFaults, calls,
      expiryTimers, engineVars, hostVars>>

TrackMessageCall(id, u, ticker, keys, t) ==
    /\ Len(getCacheKeysForMessage(messageToCache, id)) + Len(keys) <= MaxCacheKeys
    /\ trackedMessages' = trackMessage(id, MainChannel, u, ticker, keys, t)
    /\ messageToCache' = trackMessageCache(id, keys)
    /\ lastCall' = [op |-> "trackMessage", id |-> id, ret |-> 0]
    /\ UNCHANGED outsideRegistry

TrackButtonCall(id, ticker) ==
    /\ trackedMessages' = trackButtonMessage(id, MainChannel, <<ticker>>)
    /\ lastCall' = [op |-> "trackButtonMessage", id |-> id, ret |-> 0]
    /\ UNCHANGED <<messageToCache, outsideRegistry>>

TrackNoticeCall(id, t, u) ==
    /\ trackedMessages' = trackThreadSystemMessage(id, MainChannel, t, u)
    /\ lastCall' = [op |-> "trackThreadSystemMessage", id |-> id, ret |-> 0]
    /\ UNCHANGED <<messageToCache, outsideRegistry>>

UntrackCall(id) ==
    /\ LET S == untrackMessage(View(1), id)
       IN /\ trackedMessages' = S.tm
          /\ messageToCache' = S.mc
    /\ lastCall' = [op |-> "untrackMessage", id |-> id, ret |-> 0]
    /\ UNCHANGED outsideRegistry

CleanupTrackingCall ==
    /\ LET S == cleanupTrackingData(View(1))
       IN /\ trackedMessages' = S.tm
          /\ messageToCache' = S.mc
    /\ lastCall' = [op |-> "cleanupTrackingData", id |-> 0, ret |-> cleaned(View(1))]
    /\ UNCHANGED outsideRegistry

NextRegistry ==
    \/ \E id \in MsgIds, u \in Users, ticker \in Tickers, kind \in KeyKinds,
          t \in AllThreads \cup {NoThread} :
          TrackMessageCall(id, u, ticker, KeyList(kind, ticker), t)
    \/ \E id \in MsgIds, ticker \in Tickers : TrackButtonCall(id, ticker)
    \/ \E id \in MsgIds, t \in AllThreads, u \in Users : TrackNoticeCall(id, t, u)
    \/ \E id \in MsgIds : UntrackCall(id)
    \/ CleanupTrackingCall
    \/ AdvanceTime

SpecRegistry == Init /\ [][NextRegistry]_vars

\* C17: untrackMessage called with an id that is not tracked leaves the
\* registry and the message-to-cache map as they are; called with a tracked
\* id it removes that id from both maps and touches no other entry; either
\* way nothing outside the two maps changes and a second call changes nothing
C17_UntrackIdempotent ==
    [][\A id \in MsgIds :
          UntrackCall(id) =>
              /\ id \notin DOMAIN trackedMessages =>
                    UNCHANGED <<trackedMessages, messageToCache>>
              /\ trackedMessages' = MapDelete(trackedMessages, id)
              /\ messageToCache' = MapDelete(messageToCache, id)
              /\ UNCHANGED outsideRegistry
              /\ untrackMessage(untrackMessage(View(1), id), id)
                     = untrackMessage(View(1), id)]_vars

\* untrackMessage has just been called for an id that is now in neither map
\* while another id is still in both
C17_Witness ==
    /\ lastCall.op = "untrackMessage"
    /\ lastCall.id \notin DOMAIN trackedMessages
    /\ lastCall.id \notin DOMAIN messageToCache
    /\ \E m \in MsgIds \ {lastCall.id} :
          m \in DOMAIN trackedMessages /\ m \in DOMAIN messageToCache

\* after this track call everything the registry reports for id is what the
\* call passed: the entry, its cache keys, and its share of the statistics
RecordedOnly(id, keys) ==
    /\ id \in DOMAIN trackedMessages'
    /\ trackedMessages'[id].messageId = id
    /\ trackedMessages'[id].cacheKeys = keys
    /\ getCacheKeysForMessage(messageToCache', id) = keys
    /\ getStats(trackedMessages', messageToCache').totalMessages
           = Cardinality(DOMAIN trackedMessages \cup {id})
    /\ getStats(trackedMessages', messageToCache').totalCacheEntries
           = getStats(MapDelete(trackedMessages, id),
                      MapDelete(messageToCache, id)).totalCacheEntries + Len(keys)

\* C18: tracking is last-write-wins by id: after a track call of any kind,
\* also for an id that is already tracked, the registry holds the one entry
\* of that call, and the cache keys getCacheKeysForMessage reports and
\* getStats counts for the id are those of that call only
C18_LastWriteWins ==
    [][/\ \A id \in MsgIds, u \in Users, ticker \in Tickers, kind \in KeyKinds,
             t \in AllThreads \cup {NoThread} :
             TrackMessageCall(id, u, ticker, KeyList(kind, ticker), t) =>
                 /\ RecordedOnly(id, KeyList(kind, ticker))
                 /\ trackedMessages'[id].type = "chart_response"
       /\ \A id \in MsgIds, ticker \in Tickers :
             TrackButtonCall(id, ticker) =>
                 /\ RecordedOnly(id, <<>>)
                 /\ trackedMessages'[id].type = "button_interaction"
       /\ \A id \in MsgIds, t \in AllThreads, u \in Users :
             TrackNoticeCall(id, t, u) =>
                 /\ RecordedOnly(id, <<>>)
                 /\ trackedMessages'[id].type = "thread_system_message"]_vars

\* C19: the createdAt of an id never changes while the id remains in the
\* registry: no step, a second track call with the same id included, moves
\* the creation time of an id that is tracked before and after it
C19_CreatedAtNeverMoves ==
    [][\A m \in DOMAIN trackedMessages \cap DOMAIN trackedMessages' :
          trackedMessages'[m].createdAt = trackedMessages[m].createdAt]_vars

\* C20: a cleanupTrackingData call removes from the registry exactly the
\* entries whose createdAt is strictly older than now minus (retention +
\* safety margin), together with their message-to-cache lists, returns their
\* number, keeps every other entry as it was and changes nothing else: no
\* platform message or thread, no cache entry
C20_StaleSweepFrame ==
    [][CleanupTrackingCall =>
          LET old == {m \in DOMAIN trackedMessages :
                         trackedMessages[m].createdAt < now - SafetyBufferHours}
          IN /\ DOMAIN trackedMessages' = DOMAIN trackedMessages \ old
             /\ \A m \in DOMAIN trackedMessages' :
                   trackedMessages'[m] = trackedMessages[m]
             /\ messageToCache' =
                    [m \in DOMAIN messageToCache \ old |-> messageToCache[m]]
             /\ lastCall'.ret = Cardinality(old)
             /\ UNCHANGED <<platformVars, stockCache, chartCache>>
             /\ UNCHANGED outsideRegistry]_vars

\* cleanupTrackingData has just removed one entry and kept one whose age is
\* exactly retention + safety margin
C20_Witness ==
    /\ lastCall.op = "cleanupTrackingData"
    /\ lastCall.ret = 1
    /\ \E m \in DOMAIN trackedMessages :
          /\ trackedMessages[m].createdAt = now - SafetyBufferHours
          /\ m \in DOMAIN messageToCache

\* ------------------------------------------------- cache release (C21-C23)
\* entry j of run r had its cleanup go through in this step
CleanedNow(r, j) ==
    /\ j \in DOMAIN runs[r].log
    /\ j \in DOMAIN runs'[r].log
    /\ runs[r].log[j].result = "pending"
    /\ runs'[r].log[j].result = "ok"
    /\ runs'[r].expired = runs[r].expired

\* C21: when the cleanup of a chart artifact goes through, the quote-cache
\* entry and the chart-cache entry that its fetch/render path stored for its
\* ticker and day are both gone: the keys recorded on the artifact are the
\* keys under which the two caches hold those entries.
C21_BothCacheEntriesReleased ==
    [][\A r \in RunIds : \A j \in 1..MaxMsg :
          (CleanedNow(r, j) /\ runs[r].expired[j].cacheKeys # <<>>) =>
              LET md == runs[r].expired[j]
                  day == md.createdAt \div 24
              IN /\ <<"chart", md.ticker, day>> \notin DOMAIN chartCache'
                 /\ <<"quote", md.ticker, day>> \notin DOMAIN stockCache']_vars

\* the cache release on its own: a registry of overdue chart artifacts as the
\* tracking calls can have built it (no key, the chart key the handlers
\* record, or the quote key and the chart key the retention tests record),
\* both caches filled, and caches whose clearFromCache may throw for some keys
ReleaseKinds == KeyKinds \cup {"both"}
ReleaseKeyList(kind, ticker) ==
    IF kind = "both" THEN <<getCacheKey(ticker), getChartCacheKey(ticker)>>
    ELSE KeyList(kind, ticker)
CacheNames == {"stock", "chart"}
AllKeys == {getCacheKey(tk) : tk \in Tickers} \cup {getChartCacheKey(tk) : tk \in Tickers}

InitRelease ==
    /\ now = 2 * RetentionHours
    /\ nextMsg = MaxMsg + 1
    /\ nextThread = 1
    /\ \E kinds \in [1..MaxMsg -> ReleaseKinds] :
         /\ trackedMessages =
                [m \in 1..MaxMsg |->
                    [Artifact(m, "chart_response", 0)
                        EXCEPT !.cacheKeys = ReleaseKeyList(kinds[m], "AAPL")]]
         /\ messageToCache =
                [m \in {x \in 1..MaxMsg : kinds[x] # "none"}
                    |-> ReleaseKeyList(kinds[m], "AAPL")]
    /\ platformMessages = [m \in 1..MaxMsg |-> MainChannel]
    /\ registeredEphemeral = {}
    /\ platformThreads = {}
    /\ archivedThreads = {}
    /\ userContent = {}
    /\ stockCache = [k \in {getCacheKey("AAPL")} |-> <<"AAPL", today>>]
    /\ chartCache = [k \in {getChartCacheKey("AAPL")} |-> <<"AAPL", today>>]
    /\ userThreads = EmptyMap
    /\ threadService = FALSE
    /\ inter = [u \in Users |-> NoThread]
    /\ isRunning = FALSE
    /\ cleanupInterval = FALSE
    /\ timers = 0
    /\ cleanupCycleCount = 0
    /\ lastCall = NoCall
    /\ cacheFaults \in SUBSET (CacheNames \X AllKeys)
    /\ calls = [c \in CallIds |-> IdleCall]
    /\ expiryTimers = {}
    /\ InitHost
    /\ runs = [r \in RunIds |-> IdleRun]

NextRelease ==
    \/ triggerCleanup(ThreadRunIds)
    \/ \E r \in ThreadRunIds : Settle(r)
    \/ \E r \in ThreadRunIds : FetchChannelReturn(r)
    \/ \E r \in ThreadRunIds : FetchMessageReturn(r)
    \/ \E r \in ThreadRunIds : DeleteMessageReturn(r)

SpecRelease == InitRelease /\ [][NextRelease]_vars

\* the artifacts of a tick whose cleanup went through
CleanedIn(run) == {j \in Entries(run) : run.log[j].result = "ok"}
RECURSIVE SumOver(_, _)
SumOver(f, js) ==
    IF js = {} THEN 0
    ELSE LET j == CHOOSE x \in js : TRUE
         IN f[j] + SumOver(f, js \ {j})
\* cache keys listed on the artifacts cleaned in the tick
KeysListed(run) ==
    SumOver([j \in Entries(run) |-> Len(run.expired[j].cacheKeys)], CleanedIn(run))
\* clearFromCache calls the tick made on the quote cache and on the chart cache
StockCalls(run) ==
    SumOver([j \in Entries(run) |-> Len(run.log[j].stock)], Entries(run))
ChartCalls(run) ==
    SumOver([j \in Entries(run) |-> Len(run.log[j].chart)], Entries(run))
\* no clearFromCache call of the tick threw
NoFault(run) ==
    \A j \in Entries(run) : \A x \in 1..Len(run.log[j].stock) :
        \A c \in CacheNames : <<c, run.log[j].stock[x]>> \notin cacheFaults

\* C22 (as stated): when a tick has ended, the number of cache-release calls
\* summed over both caches equals the number of cache keys listed on the
\* artifacts it cleaned.
C22_ReleaseCallsEqualKeys ==
    \A r \in RunIds :
        runs[r].pc = "done" =>
            StockCalls(runs[r]) + ChartCalls(runs[r]) = KeysListed(runs[r])

\* C22 (amended): when a tick has ended, the quote cache has received one
\* release call per cache key listed on the artifacts it cleaned, the chart
\* cache at most as many, and when no release call threw the chart cache has
\* received as many too: twice the number of keys over both caches.
C22_ReleaseCallsPerCache ==
    \A r \in RunIds :
        runs[r].pc = "done" =>
            /\ StockCalls(runs[r]) = KeysListed(runs[r])
            /\ ChartCalls(runs[r]) <= KeysListed(runs[r])
            /\ NoFault(runs[r]) =>
                  StockCalls(runs[r]) + ChartCalls(runs[r])
                      = 2 * KeysListed(runs[r])

\* a tick has cleaned two artifacts with two keys each and made eight calls
C22_Witness ==
    \E r \in RunIds :
        /\ runs[r].pc = "done"
        /\ Cardinality(CleanedIn(runs[r])) = 2
        /\ KeysListed(runs[r]) = 4
        /\ StockCalls(runs[r]) + ChartCalls(runs[r]) = 8

\* number of times key k occurs in a list of keys
Times(keys, k) == Cardinality({x \in 1..Len(keys) : keys[x] = k})
KeysOf(md) == {md.cacheKeys[x] : x \in 1..Len(md.cacheKeys)}
\* the clearFromCache call of the named cache for key k throws
Throws(cache, k) == <<cache, k>> \in cacheFaults

isCacheValid(cacheEntry) == cacheEntry[2] = today

\* what fetchStockData takes from the quote cache
cachedStockData(ticker) ==
    LET cacheKey == getCacheKey(ticker)
    IN IF cacheKey \in DOMAIN stockCache /\ isCacheValid(stockCache[cacheKey])
       THEN stockCache[cacheKey][1]
       ELSE NoPayload

\* the value getFromCache returns, and the chart cache it leaves
getFromCache(cacheKey) ==
    IF cacheKey \notin DOMAIN chartCache THEN NoPayload
    ELSE IF chartCache[cacheKey][2] # today THEN NoPayload
    ELSE chartCache[cacheKey][1]

getFromCacheLeaves(cacheKey) ==
    IF cacheKey \in DOMAIN chartCache /\ chartCache[cacheKey][2] # today
    THEN MapDelete(chartCache, cacheKey)
    ELSE chartCache

setInCache(cacheKey, chartBuffer) == MapSet(chartCache, cacheKey, <<chartBuffer, today>>)

cleanupExpiredCache(cache) ==
    [k \in {x \in DOMAIN cache : cache[x][2] = today} |-> cache[k]]

outsideCaches ==
    <<nextMsg, nextThread, trackedMessages, messageToCache, registeredEphemeral,
      platformVars, userThreads, threadService, inter, cacheFaults,
      expiryTimers, engineVars, hostVars>>

\* fetchStockData up to its return from the cache or its provider call
fetchStockData(c, ticker) ==
    /\ calls[c] = IdleCall
    /\ lastCall' = [op |-> "fetchStockData", id |-> ticker,
                    ret |-> cachedStockData(ticker)]
    /\ calls' = IF cachedStockData(ticker) # NoPayload THEN calls
                ELSE [calls EXCEPT ![c] = [IdleCall EXCEPT
                         !.op = "fetchStockData", !.pc = "provider",
                         !.arg = ticker, !.key = getCacheKey(ticker)]]
    /\ UNCHANGED <<now, stockCache, chartCache, outsideCaches>>

\* a provider has answered (Alpha Vantage, or Yahoo Finance after it), or
\* both have failed
ProviderReturn(c) ==
    /\ calls[c].pc = "provider"
    /\ calls' = [calls EXCEPT ![c] = IdleCall]
    /\ \E stockData \in Payloads \cup {NoPayload} :
         /\ lastCall' = [op |-> "stockCache.set", id |-> calls[c].arg,
                         ret |-> stockData]
         /\ stockCache' = IF stockData = NoPayload THEN stockCache
                          ELSE MapSet(stockCache, calls[c].key, <<stockData, today>>)
    /\ UNCHANGED <<now, chartCache, outsideCaches>>

\* generateChart up to its return from the cache or its first renderer call
generateChart(c, ticker) ==
    /\ calls[c] = IdleCall
    /\ LET cacheKey == getChartCacheKey(ticker)
       IN /\ lastCall' = [op |-> "generateChart", id |-> ticker,
                          ret |-> getFromCache(cacheKey)]
          /\ chartCache' = getFromCacheLeaves(cacheKey)
          /\ calls' = IF getFromCache(cacheKey) # NoPayload THEN calls
                      ELSE [calls EXCEPT ![c] = [IdleCall EXCEPT
                               !.op = "generateChart", !.pc = "renderer",
                               !.arg = ticker, !.key = cacheKey]]
    /\ UNCHANGED <<now, stockCache, outsideCaches>>

\* the renderer calls have returned the screenshot, or one of them has thrown
RendererReturn(c) ==
    /\ calls[c].pc = "renderer"
    /\ calls' = [calls EXCEPT ![c] = IdleCall]
    /\ \E chartBuffer \in Payloads \cup {NoPayload} :
         /\ lastCall' = [op |-> "setInCache", id |-> calls[c].arg,
                         ret |-> chartBuffer]
         /\ chartCache' = IF chartBuffer = NoPayload THEN chartCache
                          ELSE setInCache(calls[c].key, chartBuffer)
    /\ UNCHANGED <<now, stockCache, outsideCaches>>

\* StockService's hourly timer, and a call of ChartService.cleanupExpiredCache
StockSweep ==
    /\ stockCache' = cleanupExpiredCache(stockCache)
    /\ lastCall' = [op |-> "cleanupExpiredCache", id |-> "stock", ret |-> 0]
    /\ UNCHANGED <<now, chartCache, calls, outsideCaches>>

ChartSweep ==
    /\ chartCache' = cleanupExpiredCache(chartCache)
    /\ lastCall' = [op |-> "cleanupExpiredCache", id |-> "chart", ret |-> 0]
    /\ UNCHANGED <<now, stockCache, calls, outsideCaches>>

\* midnight passes
DayRollover ==
    /\ today < MaxDays
    /\ now' = now + 24
    /\ lastCall' = [op |-> "midnight", id |-> "none", ret |-> 0]
    /\ UNCHANGED <<stockCache, chartCache, calls, outsideCaches>>

NextCache ==
    \/ \E c \in CallIds, ticker \in Tickers : fetchStockData(c, ticker)
    \/ \E c \in CallIds : ProviderReturn(c)
    \/ \E c \in CallIds, ticker \in Tickers : generateChart(c, ticker)
    \/ \E c \in CallIds : RendererReturn(c)
    \/ StockSweep
    \/ ChartSweep
    \/ DayRollover

SpecCache == Init /\ [][NextCache]_vars

\* the step stored the payload for the ticker through the named operation
Stored(op, ticker, payload) ==
    lastCall' = [op |-> op, id |-> ticker, ret |-> payload]
\* what a lookup for the ticker would return from either cache
Served(ticker) ==
    <<cachedStockData(ticker), getFromCache(getChartCacheKey(ticker))>>

\* C24: in both caches a payload stored for a ticker is what a lookup for
\* that ticker returns from then on that calendar day, whatever sweeps and
\* lookups happen in between; once the day has rolled over a lookup returns
\* absent, and a lookup never returns an entry stored on an earlier day,
\* swept or not.
C24_DayKeyedRoundTrip ==
    /\ [][\A c \in CallIds, ticker \in Tickers, payload \in Payloads :
            /\ (ProviderReturn(c) /\ Stored("stockCache.set", ticker, payload))
                  => cachedStockData(ticker)' = payload
            /\ (RendererReturn(c) /\ Stored("setInCache", ticker, payload))
                  => getFromCache(getChartCacheKey(ticker))' = payload]_vars
    /\ [][(StockSweep \/ ChartSweep
              \/ \E c \in CallIds, ticker \in Tickers :
                    fetchStockData(c, ticker) \/ generateChart(c, ticker))
            => \A ticker \in Tickers : Served(ticker)' = Served(ticker)]_vars
    /\ [][DayRollover
            => \A ticker \in Tickers : Served(ticker)' = <<NoPayload, NoPayload>>]_vars
    /\ [](\A ticker \in Tickers :
            /\ cachedStockData(ticker) # NoPayload
                  => stockCache[getCacheKey(ticker)][2] = today
            /\ getFromCache(getChartCacheKey(ticker)) # NoPayload
                  => chartCache[getChartCacheKey(ticker)][2] = today)

\* ------------------------------------------- the thread directory (C25-C28)
\* ThreadService on its own: getOrCreateUserThread is suspended at its probe
\* (existingThread.fetch), at channel.threads.create and at
\* findThreadSystemMessage, and arms its auto-cleanup timer before it returns.
DirThreads == {ThreadId(n) : n \in 1..MaxDirThreads}

removeUserThreadIfSafe_ignoresCallback(ut, userId, hasUserMessages) ==
    IF userId \notin DOMAIN ut THEN [ut |-> ut, ret |-> FALSE]
    ELSE [ut |-> MapDelete(ut, userId), ret |-> TRUE]

removeUserThreadIfSafe(ut, userId, hasUserMessages) ==
    IF userId \notin DOMAIN ut THEN [ut |-> ut, ret |-> FALSE]
    ELSE IF hasUserMessages THEN [ut |-> ut, ret |-> FALSE]
    ELSE [ut |-> MapDelete(ut, userId), ret |-> TRUE]

outsideDirectory ==
    <<nextMsg, trackedMessages, messageToCache, registeredEphemeral,
      platformMessages, userContent, stockCache, chartCache, threadService,
      inter, cacheFaults, engineVars, hostVars>>

Suspended(c) == calls[c].pc \notin {"idle", "returned", "threw"}

\* getOrCreateUserThread up to its first await
getOrCreateUserThread(c, u) ==
    /\ calls[c] = IdleCall
    /\ calls' = [calls EXCEPT ![c] =
                    IF u \in DOMAIN userThreads
                    THEN [IdleCall EXCEPT !.op = "getOrCreateUserThread",
                                          !.pc = "probe", !.arg = u,
                                          !.existingThread = userThreads[u]]
                    ELSE [IdleCall EXCEPT !.op = "getOrCreateUserThread",
                                          !.pc = "create", !.arg = u]]
    /\ UNCHANGED <<now, nextThread, platformThreads, archivedThreads,
                   userThreads, expiryTimers, lastCall, outsideDirectory>>

\* await existingThread.fetch() returns or throws
ProbeReturn_keepsHandle(c) ==
    /\ calls[c].pc = "probe"
    /\ \E outcome \in {"ok", "throw"} :
         /\ outcome = "ok" => calls[c].existingThread \in platformThreads
         /\ IF outcome = "ok"
            THEN /\ calls' = [calls EXCEPT ![c] =
                                 [calls[c] EXCEPT !.pc = "returned",
                                                  !.thread = calls[c].existingThread]]
                 /\ UNCHANGED userThreads
            ELSE /\ calls' = [calls EXCEPT ![c] = [calls[c] EXCEPT !.pc = "create"]]
                 /\ UNCHANGED userThreads
    /\ UNCHANGED <<now, nextThread, platformThreads, archivedThreads,
                   expiryTimers, lastCall, outsideDirectory>>

ProbeReturn(c) ==
    /\ calls[c].pc = "probe"
    /\ \E outcome \in {"ok", "throw"} :
         /\ outcome = "ok" => calls[c].existingThread \in platformThreads
         /\ IF outcome = "ok"
            THEN /\ calls' = [calls EXCEPT ![c] =
                                 [calls[c] EXCEPT !.pc = "returned",
                                                  !.thread = calls[c].existingThread]]
                 /\ UNCHANGED userThreads
            ELSE /\ calls' = [calls EXCEPT ![c] = [calls[c] EXCEPT !.pc = "create"]]
                 /\ userThreads' = MapDelete(userThreads, calls[c].arg)
    /\ UNCHANGED <<now, nextThread, platformThreads, archivedThreads,
                   expiryTimers, lastCall, outsideDirectory>>

\* await channel.threads.create(...) returns or throws
CreateReturn(c) ==
    /\ calls[c].pc = "create"
    /\ \E outcome \in {"ok", "throw"} :
         IF outcome = "ok"
         THEN /\ nextThread <= MaxDirThreads
              /\ nextThread' = nextThread + 1
              /\ platformThreads' = platformThreads \cup {ThreadId(nextThread)}
              /\ userThreads' = MapSet(userThreads, calls[c].arg, ThreadId(nextThread))
              /\ calls' = [calls EXCEPT ![c] =
                              [calls[c] EXCEPT !.pc = "systemMessage",
                                               !.thread = ThreadId(nextThread),
                                               !.isNewThread = TRUE]]
         ELSE /\ calls' = [calls EXCEPT ![c] = [calls[c] EXCEPT !.pc = "threw"]]
              /\ UNCHANGED <<nextThread, platformThreads, userThreads>>
    /\ UNCHANGED <<now, archivedThreads, expiryTimers, lastCall, outsideDirectory>>

\* await findThreadSystemMessage(...) is over (its failure is caught): the
\* auto-cleanup timer is armed and the result returned
SystemMessageReturn(c) ==
    /\ calls[c].pc = "systemMessage"
    /\ expiryTimers' = expiryTimers \cup
           {[userId |-> calls[c].arg, thread |-> calls[c].thread,
             due |-> now + ExpiryHours]}
    /\ calls' = [calls EXCEPT ![c] = [calls[c] EXCEPT !.pc = "returned"]]
    /\ UNCHANGED <<now, nextThread, platformThreads, archivedThreads,
                   userThreads, lastCall, outsideDirectory>>

\* the caller has taken the result (or the exception)
CallOver(c) ==
    /\ calls[c].pc \in {"returned", "threw"}
    /\ calls' = [calls EXCEPT ![c] = IdleCall]
    /\ UNCHANGED <<now, nextThread, platformThreads, archivedThreads,
                   userThreads, expiryTimers, lastCall, outsideDirectory>>

\* the setTimeout callback of getOrCreateUserThread
ExpiryTimerFires_always(tm) ==
    /\ tm \in expiryTimers
    /\ now >= tm.due
    /\ expiryTimers' = expiryTimers \ {tm}
    /\ userThreads' = MapDelete(userThreads, tm.userId)
    /\ UNCHANGED <<now, nextThread, platformThreads, archivedThreads, calls,
                   lastCall, outsideDirectory>>

ExpiryTimerFires(tm) ==
    /\ tm \in expiryTimers
    /\ now >= tm.due
    /\ expiryTimers' = expiryTimers \ {tm}
    /\ userThreads' =
           IF tm.userId \in DOMAIN userThreads
              /\ userThreads[tm.userId] \in archivedThreads
           THEN MapDelete(userThreads, tm.userId)
           ELSE userThreads
    /\ UNCHANGED <<now, nextThread, platformThreads, archivedThreads, calls,
                   lastCall, outsideDirectory>>

\* a call of removeUserThreadIfSafe with a callback that answers b
RemoveIfSafeCall(u, b) ==
    /\ userThreads' = removeUserThreadIfSafe(userThreads, u, b).ut
    /\ lastCall' = [op |-> "removeUserThreadIfSafe", id |-> u,
                    ret |-> removeUserThreadIfSafe(userThreads, u, b).ret]
    /\ UNCHANGED <<now, nextThread, platformThreads, archivedThreads, calls,
                   expiryTimers, outsideDirectory>>

\* a call of removeUserThread, as cleanupThreadIfNeeded makes it
RemoveCall(u) ==
    /\ u \in DOMAIN userThreads
    /\ userThreads' = removeUserThread(userThreads, u)
    /\ lastCall' = [op |-> "removeUserThread", id |-> u, ret |-> FALSE]
    /\ UNCHANGED <<now, nextThread, platformThreads, archivedThreads, calls,
                   expiryTimers, outsideDirectory>>

\* the clock moves on while no call is suspended
HourPasses ==
    /\ \A c \in CallIds : ~Suspended(c)
    /\ AdvanceTime

TimerIds ==
    [userId : Users, thread : DirThreads,
     due : {k * RetentionHours + ExpiryHours : k \in 0..MaxSteps}]

NextDirectory ==
    \/ \E c \in CallIds, u \in Users : getOrCreateUserThread(c, u)
    \/ \E c \in CallIds : ProbeReturn(c)
    \/ \E c \in CallIds : CreateReturn(c)
    \/ \E c \in CallIds : SystemMessageReturn(c)
    \/ \E c \in CallIds : CallOver(c)
    \/ \E tm \in TimerIds : ExpiryTimerFires(tm)
    \/ \E u \in Users, b \in BOOLEAN : RemoveIfSafeCall(u, b)
    \/ \E u \in Users : RemoveCall(u)
    \/ \E t \in DirThreads : ArchiveThread(t)
    \/ HourPasses

SpecDirectory == InitThreads /\ [][NextDirectory]_vars

\* C25: a removeUserThreadIfSafe call for user u removes u's handle and
\* returns true exactly when u has a handle and the callback answers false;
\* in every other case it returns false and leaves the directory as it was.
C25_RemoveIfSafe ==
    [][\A u \in Users, b \in BOOLEAN :
          RemoveIfSafeCall(u, b) =>
              IF u \in DOMAIN userThreads /\ ~b
              THEN /\ lastCall'.ret = TRUE
                   /\ DOMAIN userThreads' = DOMAIN userThreads \ {u}
                   /\ \A v \in DOMAIN userThreads' : userThreads'[v] = userThreads[v]
              ELSE /\ lastCall'.ret = FALSE
                   /\ userThreads' = userThreads]_vars

\* a call has returned true and the handle of its user is gone
C25_Witness ==
    /\ lastCall.op = "removeUserThreadIfSafe"
    /\ lastCall.ret = TRUE
    /\ lastCall.id \notin DOMAIN userThreads
    /\ nextThread > 1

\* call c has come back from its probe with the handle it found
ProbeSucceeded(c) == ProbeReturn(c) /\ calls'[c].pc = "returned"
ProbeFailed(c) == ProbeReturn(c) /\ calls'[c].pc = "create"
Created(c) == CreateReturn(c) /\ calls'[c].pc = "systemMessage"

\* C26: a getOrCreateUserThread call that finds a handle for its user and
\* whose probe succeeds returns that handle with isNewThread = false and
\* creates no thread; when the probe fails the call discards the handle,
\* creates exactly one new thread on the platform, stores it as the user's
\* handle and returns it with isNewThread = true.
C26_ReuseOrRecreate ==
    /\ [][\A c \in CallIds :
            /\ ProbeSucceeded(c) =>
                  /\ calls'[c].thread = calls[c].existingThread
                  /\ calls'[c].isNewThread = FALSE
                  /\ UNCHANGED <<platformThreads, nextThread, userThreads>>
            /\ ProbeFailed(c) =>
                  /\ calls[c].arg \notin DOMAIN userThreads'
                  /\ UNCHANGED <<platformThreads, nextThread>>
            /\ Created(c) =>
                  /\ Cardinality(platformThreads' \ platformThreads) = 1
                  /\ calls'[c].thread \in platformThreads' \ platformThreads
                  /\ userThreads'[calls[c].arg] = calls'[c].thread
            /\ (SystemMessageReturn(c) \/ CallOver(c)) =>
                  UNCHANGED <<platformThreads, nextThread, userThreads>>
            /\ SystemMessageReturn(c) =>
                  /\ calls'[c].thread = calls[c].thread
                  /\ calls'[c].pc = "returned"]_vars
    /\ [](\A c \in CallIds :
            calls[c].pc = "returned" =>
                /\ calls[c].isNewThread <=> calls[c].thread # calls[c].existingThread
                /\ calls[c].thread # NoThread)

\* a call that found a handle and whose probe failed has returned a new one
C26_Witness ==
    \E c \in CallIds :
        /\ calls[c].pc = "returned"
        /\ calls[c].existingThread # NoThread
        /\ calls[c].isNewThread
        /\ calls[c].thread \notin {NoThread, calls[c].existingThread}
        /\ userThreads[calls[c].arg] = calls[c].thread

\* C27: two getOrCreateUserThread calls for one user that are in flight
\* together never both create a platform thread: while both are suspended
\* after their creation step they hold the same handle.
C27_OneThreadForConcurrentCalls ==
    \A c1, c2 \in CallIds :
        (/\ c1 # c2
         /\ calls[c1].arg = calls[c2].arg
         /\ calls[c1].pc = "systemMessage"
         /\ calls[c2].pc = "systemMessage")
            => calls[c1].thread = calls[c2].thread

\* C28 (as stated): when the auto-expiry timer armed for a created handle
\* fires, that handle is not in the directory afterwards (the timer removes
\* it unless it was removed before).
C28_TimerRemovesHandle ==
    [][\A tm \in TimerIds :
          ExpiryTimerFires(tm) =>
              \/ tm.userId \notin DOMAIN userThreads'
              \/ userThreads'[tm.userId] # tm.thread]_vars

\* C28 (amended): every call that creates a handle arms one timer, due after
\* the fixed window; when it fires, the handle the user has at that moment is
\* removed if its thread is archived and the directory is left as it is
\* otherwise; a user without a handle who returns gets a newly created one.
C28_TimerRemovesArchivedHandle ==
    /\ [][\A tm \in TimerIds :
            ExpiryTimerFires(tm) =>
                /\ now >= tm.due
                /\ IF tm.userId \in DOMAIN userThreads
                      /\ userThreads[tm.userId] \in archivedThreads
                   THEN /\ tm.userId \notin DOMAIN userThreads'
                        /\ \A v \in DOMAIN userThreads' :
                              userThreads'[v] = userThreads[v]
                   ELSE userThreads' = userThreads]_vars
    /\ [][\A c \in CallIds :
            SystemMessageReturn(c) =>
                expiryTimers' \ expiryTimers =
                    {[userId |-> calls[c].arg, thread |-> calls[c].thread,
                      due |-> now + ExpiryHours]}]_vars
    /\ [][\A c \in CallIds, u \in Users :
            (getOrCreateUserThread(c, u) /\ u \notin DOMAIN userThreads)
                => calls'[c].pc = "create"]_vars

\* every timer has fired, no call is in flight, and the user still has the
\* handle of a thread that is not archived
C28_Witness ==
    /\ expiryTimers = {}
    /\ \A c \in CallIds : calls[c] = IdleCall
    /\ now >= RetentionHours
    /\ \E u \in DOMAIN userThreads : userThreads[u] \notin archivedThreads

\* the platform calls a tick can be suspended at
Awaits == {"fetchChannel", "fetchMessage", "deleteMessage", "fetchThread",
           "searchThreads", "deleteThread", "orphanFetchChannel", "orphanList",
           "orphanMessages", "orphanDelete"}

OrphanDeleteIssued(r) ==
    /\ runs[r].pc = "orphanMessages"
    /\ runs'[r].pc = "orphanDelete"

ReferencedIn(tm, t) == \E m \in DOMAIN tm : tm[m].threadId = t

\* C30: when the orphan sweep issues the deletion of a thread, the thread is
\* archived, has no recent user message and no tracked artifact references
\* it at that moment, an artifact tracked while the sweep was suspended at a
\* platform call included.
C30_OrphanDeleteOnlyUnreferenced ==
    [][\A r \in ThreadRunIds :
          OrphanDeleteIssued(r) =>
              LET t == Head(runs[r].threads)
              IN /\ t \in archivedThreads
                 /\ t \notin userContent
                 /\ ~ReferencedIn(trackedMessages, t)]_vars

\* ------------------------------------- the retention configuration (C31)
\* MESSAGE_RETENTION_HOURS is a string of at most MaxEnvLen characters, or is
\* not set.  A number is a signed count m of units of 10^-d hours.
EnvChars == {"0", "1", "6", "8", "9", ".", "-", " ", "x"}
EnvStrings == UNION {[1..n -> EnvChars] : n \in 0..MaxEnvLen}
DigitChars == <<"0", "1", "2", "3", "4", "5", "6", "7", "8", "9">>
IsDigit(c) == \E i \in 1..10 : DigitChars[i] = c
DigitValue(c) == (CHOOSE i \in 1..10 : DigitChars[i] = c) - 1

RECURSIVE Pow10(_)
Pow10(n) == IF n = 0 THEN 1 ELSE 10 * Pow10(n - 1)

NaN == [nan |-> TRUE, m |-> 0, d |-> 0]
Num(m, d) == [nan |-> FALSE, m |-> m, d |-> d]
Less(a, b) == a.m * Pow10(b.d) < b.m * Pow10(a.d)
Plus(a, b) == Num(a.m * Pow10(b.d) + b.m * Pow10(a.d), a.d + b.d)
\* hours to milliseconds, for a number of at most five decimals
ToMs(h) == h.m * (3600000 \div Pow10(h.d))

RECURSIVE TrimStart(_)
TrimStart(s) ==
    IF s # <<>> /\ Head(s) = " " THEN TrimStart(Tail(s)) ELSE s

RECURSIVE LeadingDigits(_)
LeadingDigits(s) ==
    IF s # <<>> /\ IsDigit(Head(s)) THEN <<Head(s)>> \o LeadingDigits(Tail(s))
    ELSE <<>>

RECURSIVE DigitsValue(_)
DigitsValue(s) ==
    IF s = <<>> THEN 0
    ELSE 10 * DigitsValue(SubSeq(s, 1, Len(s) - 1)) + DigitValue(s[Len(s)])

\* parseFloat: leading blanks, an optional sign, digits, an optional point
\* and digits; what follows is ignored; NaN when no digit was read
parseFloat(s) ==
    LET t == TrimStart(s)
        signed == t # <<>> /\ Head(t) \in {"-", "+"}
        u == IF signed THEN Tail(t) ELSE t
        whole == LeadingDigits(u)
        rest == SubSeq(u, Len(whole) + 1, Len(u))
        frac == IF rest # <<>> /\ Head(rest) = "."
                THEN LeadingDigits(Tail(rest)) ELSE <<>>
        m == DigitsValue(whole \o frac)
    IN IF whole = <<>> /\ frac = <<>> THEN NaN
       ELSE Num(IF signed /\ Head(t) = "-" THEN 0 - m ELSE m, Len(frac))

getMessageRetentionHours_exclusive(env) ==
    LET hours == parseFloat(env)
    IN IF hours.nan \/ ~Less(Num(1, 1), hours) \/ Less(Num(168, 0), hours)
       THEN Num(26, 0)
       ELSE hours

getMessageRetentionHours(env) ==
    LET hours == parseFloat(env)
    IN IF hours.nan \/ Less(hours, Num(1, 1)) \/ Less(Num(168, 0), hours)
       THEN Num(26, 0)
       ELSE hours

getMessageRetentionMs(env) == ToMs(getMessageRetentionHours(env))
getMessageRetentionSafetyBufferMs(env) ==
    ToMs(Plus(getMessageRetentionHours(env), Num(4, 0)))

outsideEnvironment ==
    <<now, nextMsg, nextThread, trackedMessages, messageToCache,
      registeredEphemeral, platformVars, stockCache, chartCache, userThreads,
      threadService, inter, cacheFaults, calls, expiryTimers, engineVars,
      processedInteractions, userTickerRequests, nowSec>>

\* the process starts with any value of the variable, or without it
InitEnv ==
    /\ InitCore(FALSE)
    /\ processEnv \in EnvStrings \cup {Unset}
    /\ processedInteractions = {}
    /\ userTickerRequests = EmptyMap
    /\ nowSec = 5

RetentionHoursCall ==
    /\ lastCall' = [op |-> "getMessageRetentionHours", id |-> 0,
                    ret |-> getMessageRetentionHours(processEnv)]
    /\ UNCHANGED <<processEnv, outsideEnvironment>>

RetentionMsCall ==
    /\ lastCall' = [op |-> "getMessageRetentionMs", id |-> 0,
                    ret |-> getMessageRetentionMs(processEnv)]
    /\ UNCHANGED <<processEnv, outsideEnvironment>>

SafetyBufferCall ==
    /\ lastCall' = [op |-> "getMessageRetentionSafetyBufferMs", id |-> 0,
                    ret |-> getMessageRetentionSafetyBufferMs(processEnv)]
    /\ UNCHANGED <<processEnv, outsideEnvironment>>

\* delete process.env.MESSAGE_RETENTION_HOURS
DeleteEnv ==
    /\ processEnv # Unset
    /\ processEnv' = Unset
    /\ lastCall' = [op |-> "delete", id |-> 0, ret |-> 0]
    /\ UNCHANGED outsideEnvironment

NextEnv ==
    \/ RetentionHoursCall
    \/ RetentionMsCall
    \/ SafetyBufferCall
    \/ DeleteEnv

SpecEnv == InitEnv /\ [][NextEnv]_vars

\* the value the variable is read as, and whether it is in the accepted range
Configured == parseFloat(processEnv)
Accepted ==
    /\ ~Configured.nan
    /\ Configured.m * 10 >= Pow10(Configured.d)
    /\ Configured.m <= 168 * Pow10(Configured.d)
Default == Num(26, 0)
FourHoursMs == 4 * 60 * 60 * 1000

AlphaVantageReturn(c) ==
    /\ calls[c].op = "fetchStockData"
    /\ calls[c].pc = "provider"
    /\ \E stockData \in Payloads \cup {NoPayload} :
         IF stockData = NoPayload
         THEN /\ calls' = [calls EXCEPT ![c].pc = "fallback"]
              /\ lastCall' = [op |-> "alphaError", id |-> calls[c].arg,
                              ret |-> NoPayload]
              /\ UNCHANGED stockCache
         ELSE /\ calls' = [calls EXCEPT ![c] = IdleCall]
              /\ stockCache' = MapSet(stockCache, calls[c].key, <<stockData, today>>)
              /\ lastCall' = [op |-> "stockCache.set", id |-> calls[c].arg,
                              ret |-> stockData]
    /\ UNCHANGED <<now, chartCache, outsideCaches>>

YahooReturn(c) ==
    /\ calls[c].op = "fetchStockData"
    /\ calls[c].pc = "fallback"
    /\ calls' = [calls EXCEPT ![c] = IdleCall]
    /\ \E stockData \in Payloads \cup {NoPayload} :
         IF stockData = NoPayload
         THEN /\ lastCall' = [op |-> "throw", id |-> calls[c].arg,
                              ret |-> NoPayload]
              /\ UNCHANGED stockCache
         ELSE /\ stockCache' = MapSet(stockCache, calls[c].key, <<stockData, today>>)
              /\ lastCall' = [op |-> "stockCache.set", id |-> calls[c].arg,
                              ret |-> stockData]
    /\ UNCHANGED <<now, chartCache, outsideCaches>>

NextProviders ==
    \/ \E c \in CallIds, ticker \in Tickers : fetchStockData(c, ticker)
    \/ \E c \in CallIds : AlphaVantageReturn(c)
    \/ \E c \in CallIds : YahooReturn(c)
    \/ StockSweep
    \/ DayRollover

SpecProviders == Init /\ [][NextProviders]_vars

\* C32: on a miss fetchStockData calls the primary provider first and the
\* fallback only when the primary has failed; it fails only when both have
\* failed; a successful answer is stored under (ticker, today), and a fetch
\* of that ticker later the same day returns the stored record and calls no
\* provider.
C32_FallbackOrderAndReuse ==
    /\ [][\A c \in CallIds, ticker \in Tickers :
            fetchStockData(c, ticker) =>
               IF cachedStockData(ticker) = NoPayload
               THEN calls'[c].pc = "provider"
               ELSE calls' = calls /\ lastCall'.ret = cachedStockData(ticker)]_vars
    /\ [][\A c \in CallIds :
            (calls'[c].pc = "fallback" /\ calls[c].pc # "fallback")
               => calls[c].pc = "provider" /\ lastCall'.op = "alphaError"]_vars
    /\ [][(lastCall'.op = "throw" /\ lastCall' # lastCall)
            => \E c \in CallIds : calls[c].pc = "fallback" /\ calls'[c] = IdleCall]_vars
    /\ [][\A c \in CallIds, ticker \in Tickers, payload \in Payloads :
            ((AlphaVantageReturn(c) \/ YahooReturn(c))
                /\ Stored("stockCache.set", ticker, payload))
               => /\ getCacheKey(ticker)' \in DOMAIN stockCache'
                  /\ cachedStockData(ticker)' = payload]_vars
    /\ [][\A ticker \in Tickers :
            (StockSweep \/ \E c \in CallIds : fetchStockData(c, ticker))
               => cachedStockData(ticker)' = cachedStockData(ticker)]_vars

\* ---------------------------------- errors of the thread release (C33)
\* C33: an error raised while the thread of an artifact is located or deleted
\* (not found, forbidden or any other) stays inside the thread-release step:
\* the step goes on or ends, the artifact is untracked in the same tick and
\* the tick counts it as a success.
C33_ThreadErrorsAbsorbed ==
    /\ [][\A r \in ThreadRunIds :
            (runs[r].pc \in ThreadPcs /\ runs'[r] # runs[r]) =>
               LET j == runs[r].i
               IN \/ /\ runs'[r].pc \in ThreadPcs
                     /\ runs'[r].i = j
                     /\ runs'[r].log[j].result = "pending"
                  \/ /\ runs'[r].log[j].result = "ok"
                     /\ Cur(runs[r]).messageId \notin DOMAIN trackedMessages']_vars
    /\ [](\A r \in ThreadRunIds : \A j \in 1..Len(runs[r].log) :
            (runs[r].log[j].threadErr # "none" /\ runs[r].log[j].result # "pending")
               => /\ runs[r].log[j].result = "ok"
                  /\ runs[r].expired[j].messageId \notin DOMAIN trackedMessages)

\* a tick has finished an artifact whose thread delete raised an error that is
\* neither not-found nor forbidden: it is untracked and counted as a success
C33_Witness ==
    \E r \in ThreadRunIds : \E j \in 1..Len(runs[r].log) :
        /\ runs[r].log[j].threadErr = "other"
        /\ runs[r].log[j].result = "ok"
        /\ runs[r].expired[j].messageId \notin DOMAIN trackedMessages

\* ------------------------------------ atomic registry operations (C34)
\* ids the step adds to, and removes from, the registry
Added == (DOMAIN trackedMessages') \ (DOMAIN trackedMessages)
Dropped == (DOMAIN trackedMessages) \ (DOMAIN trackedMessages')

getStatus == [isRunning |-> isRunning, intervalActive |-> cleanupInterval]

GetStatusCall ==
    /\ lastCall' = [op |-> "getStatus", id |-> 0, ret |-> getStatus]
    /\ UNCHANGED <<trackedMessages, messageToCache, stockCache, chartCache,
                   userThreads, platformVars, engineVars, now, nextMsg,
                   nextThread, registeredEphemeral, threadService, inter,
                   cacheFaults, calls, expiryTimers, hostVars>>

NextLifecycle ==
    \/ start(ThreadRunIds)
    \/ stop
    \/ GetStatusCall
    \/ TimerFire(ThreadRunIds)
    \/ \E r \in ThreadRunIds : Settle(r)
    \/ \E r \in ThreadRunIds : FetchChannelReturn(r)
    \/ \E r \in ThreadRunIds : FetchMessageReturn(r)
    \/ \E r \in ThreadRunIds : DeleteMessageReturn(r)
    \/ \E u \in Users : ChannelChart(u)
    \/ AdvanceTime

SpecLifecycle == Init /\ [][NextLifecycle]_vars

\* C35: after any sequence of start() and stop() calls the engine is Running
\* exactly when its interval timer is armed, and getStatus reports isRunning
\* and intervalActive with one and the same value, the value of both.
C35_RunningIffTimerArmed ==
    /\ [](/\ isRunning <=> cleanupInterval
          /\ isRunning <=> timers > 0
          /\ lastCall.op = "getStatus"
                => lastCall.ret.isRunning = lastCall.ret.intervalActive)
    /\ [][GetStatusCall => /\ lastCall'.ret.isRunning = isRunning
                           /\ lastCall'.ret.intervalActive = (timers > 0)]_vars

\* the engine was started, has run a tick and was stopped, and getStatus has
\* reported it as not running with no interval
C35_Witness ==
    /\ cleanupCycleCount > 0
    /\ ~isRunning
    /\ timers = 0
    /\ lastCall = [op |-> "getStatus", id |-> 0,
                   ret |-> [isRunning |-> FALSE, intervalActive |-> FALSE]]

\* --------------------------------- the stale sweep and the window (C36)
ExpiredNow ==
    LET ids == getExpiredMessages(trackedMessages, now)
    IN {ids[j] : j \in 1..Len(ids)}

\* C36: every entry cleanupTrackingData removes is one getExpiredMessages
\* returns at that instant: the safety buffer is never smaller than the
\* retention duration (retention plus four hours with an environment, 30
\* hours against 26 without one), so the sweep never forgets an artifact
\* that is still inside its retention window.
C36_StaleSweepWithinExpired ==
    /\ [][CleanupTrackingCall
            => /\ Dropped \subseteq ExpiredNow
               /\ \A m \in Dropped :
                     now - trackedMessages[m].createdAt > RetentionHours]_vars
    /\ [](/\ SafetyBufferHours >= RetentionHours
          /\ DefaultSafetyBufferHours >= DefaultRetentionHours
          /\ getMessageRetentionSafetyBufferMs(processEnv)
                >= getMessageRetentionMs(processEnv))

\* a sweep has removed an entry and kept another one that is expired but
\* not older than the safety buffer
C36_Witness ==
    /\ lastCall.op = "cleanupTrackingData"
    /\ lastCall.ret >= 1
    /\ \E m \in ExpiredNow :
          now - trackedMessages[m].createdAt <= SafetyBufferHours

\* ----------------------------------- de-duplication of requests (C37)
\* Strings are sequences of tokens.  A button of the prompt carries the
\* custom id "stock_" + ticker; an interaction that is not a button has no
\* custom id.
InteractionIds == {<<"7">>, <<"8">>}
NoCustomId == <<"undefined">>
CustomIds == {<<"stock_", "AAPL">>, <<"AAPL">>, NoCustomId}

\* `${interaction.id}_${interaction.user.id}_${interaction.customId}`
interactionId(i, u, customId) == i \o <<"_", u, "_">> \o customId

\* interaction.customId?.replace('stock_', ''): <<>> stands for both the
\* empty string and undefined, which the handler treats alike
RECURSIVE replaceFirst(_, _)
replaceFirst(s, token) ==
    IF s = <<>> THEN <<>>
    ELSE IF Head(s) = token THEN Tail(s)
    ELSE <<Head(s)>> \o replaceFirst(Tail(s), token)

tickerOf(customId) ==
    IF customId = NoCustomId THEN <<>> ELSE replaceFirst(customId, "stock_")

userTickerKey(u, ticker) == <<u, "_">> \o ticker

isRapidDuplicate_never(lastRequest, t) == FALSE

\* lastRequest && (now - lastRequest) < 10000; 0 stands for undefined
isRapidDuplicate(lastRequest, t) ==
    lastRequest # 0 /\ (t - lastRequest) < DedupWindowSec

lastRequestOf(userTickerKeyValue) ==
    IF userTickerKeyValue \in DOMAIN userTickerRequests
    THEN userTickerRequests[userTickerKeyValue] ELSE 0

\* isButton(), customId.startsWith('stock_') and the ticker format check
isStockButton(customId) ==
    /\ customId # NoCustomId
    /\ Head(customId) = "stock_"
    /\ tickerOf(customId) # <<>>

HandlerCall(u, ticker, pc, key) ==
    [IdleCall EXCEPT !.op = "handleInteraction", !.pc = pc,
                     !.arg = <<u, ticker>>, !.key = key]

outsideHandler ==
    <<now, nextThread, platformVars, userThreads, threadService, inter,
      cacheFaults, expiryTimers, engineVars, processEnv>>

\* handleInteraction up to its return or its deferReply call
handleInteraction(c, i, u, customId) ==
    /\ calls[c] = IdleCall
    /\ \A d \in CallIds : d < c => calls[d] # IdleCall
    /\ LET id == interactionId(i, u, customId)
           ticker == tickerOf(customId)
           key == userTickerKey(u, ticker)
           outcome ==
               IF id \in processedInteractions THEN "duplicate"
               ELSE IF ticker # <<>> /\ isRapidDuplicate(lastRequestOf(key), nowSec)
                    THEN "rapid"
               ELSE IF isStockButton(customId) THEN "accepted"
               ELSE "ignored"
       IN /\ lastCall' = [op |-> "handleInteraction", id |-> i, ret |-> outcome]
          /\ processedInteractions' = processedInteractions \cup {id}
          /\ userTickerRequests' =
                IF outcome \in {"accepted", "ignored"} /\ ticker # <<>>
                THEN MapSet(userTickerRequests, key, nowSec)
                ELSE userTickerRequests
          /\ calls' = IF outcome = "accepted"
                      THEN [calls EXCEPT ![c] =
                              HandlerCall(u, ticker[1], "deferReply", <<>>)]
                      ELSE calls
    /\ UNCHANGED <<nowSec, nextMsg, trackedMessages, messageToCache,
                   registeredEphemeral, stockCache, chartCache, outsideHandler>>

\* the call of generateChart: a cached chart is sent at once
EnterGenerateChart(c) ==
    LET u == calls[c].arg[1]
        ticker == calls[c].arg[2]
        cacheKey == getChartCacheKey(ticker)
    IN /\ chartCache' = getFromCacheLeaves(cacheKey)
       /\ calls' = [calls EXCEPT ![c] =
                      IF getFromCache(cacheKey) # NoPayload
                      THEN HandlerCall(u, ticker, "editReply", <<>>)
                      ELSE HandlerCall(u, ticker, "renderer", cacheKey)]

\* await interaction.deferReply returns: fetchStockData is called
DeferReplyReturn(c) ==
    /\ calls[c].op = "handleInteraction"
    /\ calls[c].pc = "deferReply"
    /\ \E outcome \in {"ok", "throw"} :
         LET u == calls[c].arg[1]
             ticker == calls[c].arg[2]
         IN IF outcome = "throw"
            THEN /\ calls' = [calls EXCEPT ![c] = IdleCall]
                 /\ UNCHANGED chartCache
            ELSE IF cachedStockData(ticker) # NoPayload
                 THEN EnterGenerateChart(c)
                 ELSE /\ calls' = [calls EXCEPT ![c] =
                             HandlerCall(u, ticker, "provider", getCacheKey(ticker))]
                      /\ UNCHANGED chartCache
    /\ lastCall' = NoCall
    /\ UNCHANGED <<nowSec, nextMsg, trackedMessages, messageToCache,
                   registeredEphemeral, stockCache, processedInteractions,
                   userTickerRequests, outsideHandler>>

\* the providers have answered the handler's fetchStockData, or both failed
QuoteReturn(c) ==
    /\ calls[c].op = "handleInteraction"
    /\ calls[c].pc = "provider"
    /\ \E stockData \in Payloads \cup {NoPayload} :
         IF stockData = NoPayload
         THEN /\ calls' = [calls EXCEPT ![c] = IdleCall]
              /\ UNCHANGED <<stockCache, chartCache>>
         ELSE /\ stockCache' = MapSet(stockCache, calls[c].key, <<stockData, today>>)
              /\ EnterGenerateChart(c)
    /\ lastCall' = NoCall
    /\ UNCHANGED <<nowSec, nextMsg, trackedMessages, messageToCache,
                   registeredEphemeral, processedInteractions,
                   userTickerRequests, outsideHandler>>

\* the renderer has answered the handler's generateChart, or has thrown
ChartReturn(c) ==
    /\ calls[c].op = "handleInteraction"
    /\ calls[c].pc = "renderer"
    /\ \E chartBuffer \in Payloads \cup {NoPayload} :
         IF chartBuffer = NoPayload
         THEN /\ calls' = [calls EXCEPT ![c] = IdleCall]
              /\ UNCHANGED chartCache
         ELSE /\ chartCache' = setInCache(calls[c].key, chartBuffer)
              /\ calls' = [calls EXCEPT ![c] =
                             HandlerCall(calls[c].arg[1], calls[c].arg[2],
                                         "editReply", <<>>)]
    /\ lastCall' = NoCall
    /\ UNCHANGED <<nowSec, nextMsg, trackedMessages, messageToCache,
                   registeredEphemeral, stockCache, processedInteractions,
                   userTickerRequests, outsideHandler>>

\* await interaction.editReply returns: the reply is tracked
EditReplyReturn(c) ==
    /\ calls[c].op = "handleInteraction"
    /\ calls[c].pc = "editReply"
    /\ calls' = [calls EXCEPT ![c] = IdleCall]
    /\ \E outcome \in {"ok", "throw"} :
         IF outcome = "throw"
         THEN UNCHANGED <<nextMsg, trackedMessages, messageToCache,
                          registeredEphemeral>>
         ELSE /\ nextMsg <= MaxMsg
              /\ nextMsg' = nextMsg + 1
              /\ trackedMessages' =
                    trackMessage(nextMsg, MainChannel, calls[c].arg[1],
                                 calls[c].arg[2],
                                 <<getChartCacheKey(calls[c].arg[2])>>, NoThread)
              /\ messageToCache' =
                    trackMessageCache(nextMsg, <<getChartCacheKey(calls[c].arg[2])>>)
              /\ registeredEphemeral' = registeredEphemeral \cup {nextMsg}
    /\ lastCall' = NoCall
    /\ UNCHANGED <<nowSec, stockCache, chartCache, processedInteractions,
                   userTickerRequests, outsideHandler>>

\* the handler's five-minute timer
ClearDedup ==
    /\ processedInteractions' = {}
    /\ userTickerRequests' = EmptyMap
    /\ lastCall' = NoCall
    /\ UNCHANGED <<nowSec, nextMsg, trackedMessages, messageToCache,
                   registeredEphemeral, stockCache, chartCache, calls,
                   outsideHandler>>

\* five seconds pass
SecondsPass ==
    /\ nowSec < 5 * (MaxTicks + 1)
    /\ nowSec' = nowSec + 5
    /\ lastCall' = NoCall
    /\ UNCHANGED <<nextMsg, trackedMessages, messageToCache,
                   registeredEphemeral, stockCache, chartCache, calls,
                   processedInteractions, userTickerRequests, outsideHandler>>

NextDedup ==
    \/ \E c \in CallIds, i \in InteractionIds, u \in Users, customId \in CustomIds :
          handleInteraction(c, i, u, customId)
    \/ \E c \in CallIds : DeferReplyReturn(c)
    \/ \E c \in CallIds : QuoteReturn(c)
    \/ \E c \in CallIds : ChartReturn(c)
    \/ \E c \in CallIds : EditReplyReturn(c)
    \/ ClearDedup
    \/ SecondsPass

SpecDedup == Init /\ [][NextDedup]_vars

\* the step fetches no quote, renders no chart and tracks no artifact, nor
\* does it start a call that would
NoWork ==
    /\ calls' = calls
    /\ UNCHANGED <<stockCache, chartCache, trackedMessages, messageToCache,
                   nextMsg>>

\* C37: between two clears of the de-duplication state an interaction with
\* a given (interaction id, user, custom id) is processed at most once, and
\* a request of a user for a ticker that arrives less than 10 seconds after
\* that user's previous accepted request for it is rejected: no quote is
\* fetched, no chart rendered and no artifact tracked.
C37_DuplicatesRejected ==
    /\ [][\A c \in CallIds, i \in InteractionIds, u \in Users,
            customId \in CustomIds :
            handleInteraction(c, i, u, customId) =>
               LET id == interactionId(i, u, customId)
                   key == userTickerKey(u, tickerOf(customId))
               IN /\ id \in processedInteractions
                       => NoWork /\ lastCall'.ret = "duplicate"
                  /\ (/\ tickerOf(customId) # <<>>
                      /\ key \in DOMAIN userTickerRequests
                      /\ nowSec - userTickerRequests[key] < DedupWindowSec)
                       => NoWork /\ lastCall'.ret \in {"duplicate", "rapid"}
                  /\ lastCall'.ret = "accepted"
                       => /\ id \notin processedInteractions
                          /\ id \in processedInteractions'
                          /\ userTickerRequests'[key] = nowSec]_vars
    /\ [][ClearDedup \/ processedInteractions \subseteq processedInteractions']_vars
    /\ [][\A c \in CallIds :
            (calls[c] = IdleCall /\ calls'[c] # IdleCall)
               => lastCall'.ret = "accepted"]_vars

\* a second press of the same button, five seconds after the accepted one,
\* was rejected as a rapid duplicate
C37_Witness ==
    /\ lastCall.op = "handleInteraction"
    /\ lastCall.ret = "rapid"
    /\ userTickerKey("u1", <<"AAPL">>) \in DOMAIN userTickerRequests
    /\ nowSec - userTickerRequests[userTickerKey("u1", <<"AAPL">>)] = 5
    /\ \E c \in CallIds : calls[c].op = "handleInteraction"

\* ------------------------------- a conversation that is gone (C38)
\* C38: when the channel fetch for an expired artifact that is not ephemeral
\* returns nothing, the tick makes no message fetch and no message delete for
\* it, passes its cache keys to both caches, runs the thread check, and
\* either ends the artifact in that step, counted as a success and untracked,
\* or is suspended inside the thread release for it; an artifact whose
\* conversation was gone never ends as an error and is untracked when done.
C38_MissingConversationStillCleaned ==
    /\ [][\A r \in ThreadRunIds :
            LET j == runs[r].i
            IN (/\ runs[r].pc = "fetchChannel"
                /\ runs'[r] # runs[r]
                /\ runs'[r].log[j].channel = "null")
               => /\ ~Cur(runs[r]).isEphemeral
                  /\ ~ChannelExists(Cur(runs[r]).channelId)
                  /\ runs'[r].log[j].msgErr = "none"
                  /\ runs'[r].log[j].stock = Cur(runs[r]).cacheKeys
                  /\ runs'[r].log[j].chart = Cur(runs[r]).cacheKeys
                  /\ runs'[r].log[j].threadCheck
                  /\ \/ /\ runs'[r].pc \in ThreadPcs
                        /\ runs'[r].i = j
                        /\ runs'[r].log[j].result = "pending"
                     \/ /\ runs'[r].log[j].result = "ok"
                        /\ Cur(runs[r]).messageId \notin DOMAIN trackedMessages']_vars
    /\ [](\A r \in ThreadRunIds : \A j \in 1..Len(runs[r].log) :
            runs[r].log[j].channel = "null"
               => /\ runs[r].log[j].msgErr = "none"
                  /\ runs[r].log[j].result \in {"pending", "ok"}
                  /\ (runs[r].i = j /\ runs[r].log[j].result = "pending")
                        => runs[r].pc \in ThreadPcs
                  /\ runs[r].log[j].result = "ok"
                        => runs[r].expired[j].messageId \notin DOMAIN trackedMessages)

\* a tick has finished an artifact whose channel fetch returned nothing: its
\* key went to both caches, the thread check ran and it is untracked
C38_Witness ==
    \E r \in ThreadRunIds : \E j \in 1..Len(runs[r].log) :
        /\ runs[r].log[j].channel = "null"
        /\ runs[r].log[j].result = "ok"
        /\ runs[r].log[j].threadCheck
        /\ runs[r].expired[j].cacheKeys # <<>>
        /\ runs[r].log[j].stock = runs[r].expired[j].cacheKeys
        /\ runs[r].log[j].chart = runs[r].expired[j].cacheKeys
        /\ runs[r].expired[j].messageId \notin DOMAIN trackedMessages
====
